---- MODULE Spec2Model ----
(***************************************************************************)
(* State-machine model of the EduPlatform course and enrollment layer:     *)
(* courses/models/course_models.py, courses/models/interactionCourse_      *)
(* models.py, the course and enrollment serializers and viewsets, and the  *)
(* permission classes of users/permissions.py they are mounted behind.     *)
(*                                                                         *)
(* A Django model instance and its database row are two things: a method   *)
(* mutates the instance first and writes the row only when save() gets     *)
(* past full_clean(), and save(update_fields=F) writes only the columns F. *)
(* The model keeps both (courseObj / courseRow, enrObj / enrRow).          *)
(***************************************************************************)
EXTENDS Integers, Sequences, FiniteSets, TLC

VARIABLES
    now,              \* the wall clock django.utils.timezone.now() reads
    teacherVerified,  \* Teacher.is_verified, per teacher profile
    educationActive,  \* Education.is_active of the education system
    courseRow,        \* the Course table: id -> row, NoRow when never inserted
    courseObj,        \* the Course instance a caller holds for each row
    enrRow,           \* the Enrollment table: id -> row, NoRow when never inserted
    enrObj,           \* the Enrollment instance a caller holds for each row
    req,              \* in-flight POST /enrollments requests, one per worker
    revRow,           \* the Review table: the rows in insertion order
    revReq,           \* in-flight POST /reviews requests, one per worker
    listed,           \* the primary keys of the last GET /courses response
    userRow,          \* the User table, for the accounts the profile API adds
    profRow,          \* the profile (Teacher or Student row) of each account
    lessonRow,        \* the Lesson table: the rows in insertion order
    last              \* the last operation run: [op, id, arg, res]

vars == <<now, teacherVerified, educationActive, courseRow, courseObj,
          enrRow, enrObj, req, revRow, revReq, listed, userRow, profRow,
          lessonRow, last>>

courseVars == <<teacherVerified, educationActive, courseRow, courseObj>>
enrVars == <<enrRow, enrObj, req>>
revVars == <<revRow, revReq>>
profVars == <<userRow, profRow>>

----------------------------------------------------------------------------
(* Bounds of the model *)

MaxCourses == 1
MaxTime == 2
MaxEnrollments == 2
MaxWorkers == 2
MaxCatalog == 3

(* validators.py: the price bounds, in whole currency units (MAX_COURSE_PRICE
   is scaled down to keep the amounts enumerable) *)
MIN_COURSE_PRICE == 5

(* Python None in a nullable DateTimeField; timestamps are 1..MaxTime, and
   each call of timezone.now() gets the next one *)
NULL == 0
(* None in a DecimalField *)
NoAmount == -1
(* None in a nullable foreign key *)
NoFK == "none"
(* no row with this primary key *)
NoRow == [absent |-> TRUE]

CourseIds == 1..MaxCourses
CatalogIds == 1..MaxCatalog
Workers == 1..MaxWorkers

----------------------------------------------------------------------------
(* Users, profiles and the reference data *)

Teachers == {"t1", "t2"}
Students == {"s1"}
Users == {"admin", "u_t1", "u_t2", "u_s1", "anon"}
(* the usernames of the accounts kept in userRow: n0 is there from the start,
   n1 and n2 are free for the profile API *)
Accounts == {"n0", "n1", "n2"}
Educations == {"egy"}

is_authenticated(u) == u # "anon"
(* two staff accounts: admin has no profile, staff_s2 also holds the student
   profile s2 *)
is_staff(u) == u \in {"admin", "staff_s2"}
(* root is a superuser that is not staff *)
is_superuser(u) == u = "root"
(* User.user_type defaults to student; the staff account keeps the default *)
user_type(u) ==
    CASE u \in Accounts ->
            IF userRow[u] = NoRow THEN "anonymous" ELSE userRow[u].user_type
      [] u \in {"u_t1", "u_t2"} -> "teacher"
      [] u \in {"admin", "root", "staff_s2", "u_s1"} -> "student"
      [] OTHER -> "anonymous"
(* user.teacher_profile: the reverse one-to-one, absent for non-teachers *)
teacher_profile(u) ==
    CASE u = "u_t1" -> "t1"
      [] u = "u_t2" -> "t2"
      [] OTHER -> NoFK
teacher_user(t) == IF t = "t1" THEN "u_t1" ELSE "u_t2"
(* user.student_profile: the reverse one-to-one, absent for non-students *)
student_profile(u) ==
    CASE u = "u_s1" -> "s1"
      [] u = "staff_s2" -> "s2"
      [] OTHER -> NoFK
student_user(st) == IF st = "s1" THEN "u_s1" ELSE "staff_s2"

SAFE_METHODS == {"GET", "HEAD", "OPTIONS"}

----------------------------------------------------------------------------
(* Course: persistence *)

CourseFields == {"teacher", "education", "title", "slug", "price", "is_active",
                 "is_published", "published_at", "deleted_at"}

(* the titles requests carry; django.utils.text.slugify lower-cases a title
   and turns its runs of spaces into hyphens, so the second title slugifies
   to what the suffix scheme gives the first one's first duplicate *)
Titles == {"Algebra 101", "Algebra 101 1"}
slugify(title) ==
    CASE title = "Algebra 101" -> "algebra-101"
      [] title = "Algebra 101 1" -> "algebra-101-1"
      [] OTHER -> ""

(* Course.objects.filter(slug=slug).exclude(pk=self.pk).exists(): r is the
   row of self, NoRow before the first INSERT; slugs being unique, a row
   other than r is a row with another primary key *)
SlugTaken(slug, r) ==
    \E c \in DOMAIN courseRow :
        /\ courseRow[c] # NoRow /\ courseRow[c] # r
        /\ courseRow[c].slug = slug

(* the while loop of Course.save: the base slug, else the base slug with the
   first counter 1, 2, ... that no other row uses *)
RECURSIVE NextSlug(_, _, _)
NextSlug(base_slug, counter, r) ==
    LET slug == base_slug \o "-" \o ToString(counter)
    IN  IF SlugTaken(slug, r) THEN NextSlug(base_slug, counter + 1, r) ELSE slug

GenerateSlug(o, r) ==
    IF o.slug # "" THEN o.slug
    ELSE LET base_slug == slugify(o.title)
         IN  IF SlugTaken(base_slug, r) THEN NextSlug(base_slug, 1, r)
             ELSE base_slug

(* validate_unique of full_clean(): Meta.unique_together (teacher, title) *)
CourseUniqueTogether_None(o, r) == TRUE

CourseUniqueTogether(o, r) ==
    ~\E c \in DOMAIN courseRow :
        /\ courseRow[c] # NoRow /\ courseRow[c] # r
        /\ courseRow[c].teacher = o.teacher /\ courseRow[c].title = o.title

(* Course.clean, reached through full_clean() in Course.save: nothing is
   checked unless both teacher and education are assigned *)
CourseCleanFails(o) ==
    /\ ~(o.teacher = NoFK \/ o.education = NoFK)
    /\ \/ ~teacherVerified[o.teacher]
       \/ ~educationActive
       \/ o.price <= 0

(* Model.save() without update_fields: every column is written *)
SaveFields_All(r, o, F) == o

(* Model.save(update_fields=F): only the columns of F are written *)
SaveFields(r, o, F) == [f \in DOMAIN o |-> IF f \in F THEN o[f] ELSE r[f]]

(* Course.save: validation first, then the write; a ValidationError leaves
   the row as it was and the instance as the caller mutated it *)
CourseSave(o, r, F) ==
    LET o1 == [o EXCEPT !.slug = GenerateSlug(o, r)]
    IN  IF CourseCleanFails(o1) \/ ~CourseUniqueTogether(o1, r)
        THEN [obj |-> o1, row |-> r, res |-> "ValidationError", tick |-> FALSE]
        ELSE [obj |-> o1, row |-> IF r = NoRow THEN o1 ELSE SaveFields(r, o1, F),
              res |-> "ok", tick |-> FALSE]

(* the outcome of a method that returned without touching anything *)
Untouched(o, r, res) == [obj |-> o, row |-> r, res |-> res, tick |-> FALSE]

----------------------------------------------------------------------------
(* Course: lifecycle methods, as functions of (instance, row, clock); tick
   tells whether the call read the clock *)

publish_Restamp(o, r, t) ==
    IF o.is_published \/ ~o.is_active
    THEN Untouched(o, r, "False")
    ELSE LET o1 == [o EXCEPT !.is_published = TRUE, !.published_at = t]
             s == CourseSave(o1, r, {"is_published", "published_at"})
         IN  [s EXCEPT !.res = IF s.res = "ok" THEN "True" ELSE s.res,
                       !.tick = TRUE]

publish(o, r, t) ==
    IF o.is_published \/ ~o.is_active
    THEN Untouched(o, r, "False")
    ELSE LET o1 == [o EXCEPT !.is_published = TRUE,
                             !.published_at = IF @ = NULL THEN t ELSE @]
             s == CourseSave(o1, r, {"is_published", "published_at"})
         IN  [s EXCEPT !.res = IF s.res = "ok" THEN "True" ELSE s.res,
                       !.tick = (o.published_at = NULL)]

unpublish(o, r) ==
    IF ~o.is_published
    THEN Untouched(o, r, "False")
    ELSE LET o1 == [o EXCEPT !.is_published = FALSE]
             s == CourseSave(o1, r, {"is_published"})
         IN  [s EXCEPT !.res = IF s.res = "ok" THEN "True" ELSE s.res]

activate(o, r) ==
    LET o1 == [o EXCEPT !.is_active = TRUE]
        s == CourseSave(o1, r, {"is_active"})
    IN  [s EXCEPT !.res = IF s.res = "ok" THEN "None" ELSE s.res]

(* unpublish(commit=True) first; its ValidationError propagates before
   is_active is touched *)
deactivate(o, r) ==
    LET u == unpublish(o, r)
    IN  IF u.res = "ValidationError"
        THEN u
        ELSE LET o1 == [u.obj EXCEPT !.is_active = FALSE]
                 s == CourseSave(o1, u.row, {"is_active"})
             IN  [s EXCEPT !.res = IF s.res = "ok" THEN "None" ELSE s.res]

soft_delete(o, r, t) ==
    LET o1 == [o EXCEPT !.is_active = FALSE, !.is_published = FALSE,
                        !.deleted_at = t]
        s == CourseSave(o1, r, {"is_active", "is_published", "deleted_at"})
    IN  [s EXCEPT !.res = IF s.res = "ok" THEN "None" ELSE s.res,
                  !.tick = TRUE]

----------------------------------------------------------------------------
(* Course: permissions and the serializer of the API boundary *)

(* IsTeacherOrReadOnly.has_permission *)
IsTeacherOrReadOnly(u, method) ==
    \/ method \in SAFE_METHODS
    \/ /\ is_authenticated(u)
       /\ is_staff(u) \/ is_superuser(u) \/ user_type(u) = "teacher"

(* the rule without the comparison of the course's teacher with the user *)
IsTeacherOwnerOrReadOnly_AnyTeacher(u, method, course) ==
    \/ method \in SAFE_METHODS
    \/ /\ is_authenticated(u)
       /\ is_staff(u) \/ is_superuser(u) \/ user_type(u) = "teacher"

(* IsTeacherOwnerOrReadOnly.has_object_permission *)
IsTeacherOwnerOrReadOnly(u, method, course) ==
    \/ method \in SAFE_METHODS
    \/ /\ is_authenticated(u)
       /\ \/ is_staff(u)
          \/ is_superuser(u)
          \/ /\ user_type(u) = "teacher"
             /\ teacher_user(course.teacher) = u

(* dict.get(key, default) on the validated attrs *)
Get(attrs, k, default) == IF k \in DOMAIN attrs THEN attrs[k] ELSE default

(* the payloads: any subset of the two lifecycle flags *)
CourseAttrs ==
    UNION {[D -> BOOLEAN] : D \in SUBSET {"is_active", "is_published"}}

(* CourseCreateUpdateSerializer.validate: TRUE when attrs are accepted.
   inst is the instance being updated, NoRow on create. *)
CourseValidate(u, inst, attrs) ==
    IF is_staff(u) \/ is_superuser(u)
    THEN TRUE
    ELSE IF inst # NoRow /\ (~(is_staff(u) \/ is_superuser(u))
                             \/ user_type(u) = "student")
    THEN FALSE
    ELSE LET is_active == Get(attrs, "is_active",
                              IF inst # NoRow THEN inst.is_active ELSE TRUE)
             is_published == Get(attrs, "is_published",
                              IF inst # NoRow THEN inst.is_published ELSE FALSE)
         IN  ~(~is_active /\ is_published)

(* ModelSerializer.update: setattr for every validated attr *)
ApplyAttrs(o, attrs) ==
    [f \in DOMAIN o |-> IF f \in DOMAIN attrs THEN attrs[f] ELSE o[f]]

----------------------------------------------------------------------------
(* Initial state: empty tables, unverified teachers (Teacher.is_verified
   defaults to False), an active education system *)

Init ==
    /\ now = 1
    /\ teacherVerified = [t \in Teachers |-> FALSE]
    /\ educationActive = TRUE
    /\ courseRow = [c \in CourseIds |-> NoRow]
    /\ courseObj = [c \in CourseIds |-> NoRow]
    /\ enrRow = <<>>
    /\ enrObj = <<>>
    /\ req = <<>>
    /\ revRow = <<>>
    /\ revReq = <<>>
    /\ listed = {}
    /\ userRow = [n \in Accounts |-> NoRow]
    /\ profRow = [n \in Accounts |-> NoFK]
    /\ lessonRow = <<>>
    /\ last = [op |-> "init", id |-> 0, arg |-> 0, res |-> "None"]

DoneArg(op, id, arg, res) == last' = [op |-> op, id |-> id, arg |-> arg, res |-> res]
Done(op, id, res) == DoneArg(op, id, 0, res)

(* timezone.now(): the clock is read only while timestamps are left *)
ClockRead(tick) ==
    /\ tick => now <= MaxTime
    /\ now' = IF tick THEN now + 1 ELSE now

(* Teacher.verify_teacher / Teacher.unverify_teacher *)
VerifyTeacher(t) ==
    /\ ~teacherVerified[t]
    /\ teacherVerified' = [teacherVerified EXCEPT ![t] = TRUE]
    /\ Done("verify_teacher", 0, "True")
    /\ UNCHANGED <<now, educationActive, courseRow, courseObj, enrVars, revVars, listed, profVars, lessonRow>>

UnverifyTeacher(t) ==
    /\ teacherVerified[t]
    /\ teacherVerified' = [teacherVerified EXCEPT ![t] = FALSE]
    /\ Done("unverify_teacher", 0, "True")
    /\ UNCHANGED <<now, educationActive, courseRow, courseObj, enrVars, revVars, listed, profVars, lessonRow>>

(* Education.soft_delete *)
EducationSoftDelete ==
    /\ educationActive
    /\ educationActive' = FALSE
    /\ Done("education_soft_delete", 0, "None")
    /\ UNCHANGED <<now, teacherVerified, courseRow, courseObj, enrVars, revVars, listed, profVars, lessonRow>>

----------------------------------------------------------------------------
(* Course: the operations *)

CourseExists(c) == courseRow[c] # NoRow

(* the primary key the next INSERT gets *)
NextCourseId ==
    IF \A c \in DOMAIN courseRow : CourseExists(c) THEN 0
    ELSE CHOOSE c \in DOMAIN courseRow :
            /\ ~CourseExists(c)
            /\ \A d \in DOMAIN courseRow : d < c => CourseExists(d)

(* a method call on the held instance: outcome s of the method *)
CourseCall(op, c, s) ==
    /\ courseObj' = [courseObj EXCEPT ![c] = s.obj]
    /\ courseRow' = [courseRow EXCEPT ![c] = s.row]
    /\ Done(op, c, s.res)
    /\ ClockRead(s.tick)
    /\ UNCHANGED <<teacherVerified, educationActive, enrVars, revVars, listed, profVars, lessonRow>>

CoursePublish(c) ==
    CourseExists(c) /\ CourseCall("publish", c, publish(courseObj[c], courseRow[c], now))

CourseUnpublish(c) ==
    CourseExists(c) /\ CourseCall("unpublish", c, unpublish(courseObj[c], courseRow[c]))

CourseActivate(c) ==
    CourseExists(c) /\ CourseCall("activate", c, activate(courseObj[c], courseRow[c]))

CourseDeactivate(c) ==
    CourseExists(c) /\ CourseCall("deactivate", c, deactivate(courseObj[c], courseRow[c]))

CourseSoftDelete(c) ==
    CourseExists(c) /\ CourseCall("soft_delete", c, soft_delete(courseObj[c], courseRow[c], now))

(* Model.refresh_from_db / a fresh Course.objects.get *)
CourseRefresh(c) ==
    /\ CourseExists(c)
    /\ courseObj[c] # courseRow[c]
    /\ courseObj' = [courseObj EXCEPT ![c] = courseRow[c]]
    /\ Done("refresh", c, "None")
    /\ UNCHANGED <<now, teacherVerified, educationActive, courseRow, enrVars, revVars, listed, profVars, lessonRow>>

(* an API request that ends without a write *)
CourseApiReject(op, c, res) ==
    /\ Done(op, c, res)
    /\ UNCHANGED <<now, courseVars, enrVars, revVars, listed, profVars, lessonRow>>

(* POST /courses: CourseViewSet.create -> CourseCreateUpdateSerializer ->
   perform_create -> Course.save *)
CourseApiCreate(u, edu, title, price, attrs) ==
    /\ NextCourseId # 0
    /\ LET c == NextCourseId IN
       IF ~IsTeacherOrReadOnly(u, "POST")
       THEN CourseApiReject("api_create", c, "403")
       ELSE IF edu # NoFK /\ ~educationActive
       THEN CourseApiReject("api_create", c, "error")   \* validate_education raises
       ELSE IF ~CourseValidate(u, NoRow, attrs)
       THEN CourseApiReject("api_create", c, "400")
       ELSE IF teacher_profile(u) = NoFK
       THEN CourseApiReject("api_create", c, "error")   \* no teacher_profile
       ELSE LET o == [teacher |-> teacher_profile(u),
                      education |-> edu,
                      title |-> title,
                      slug |-> "",
                      price |-> price,
                      is_active |-> Get(attrs, "is_active", TRUE),
                      is_published |-> Get(attrs, "is_published", FALSE),
                      published_at |-> NULL,
                      deleted_at |-> NULL]
                s == CourseSave(o, NoRow, CourseFields)
            IN  IF s.res # "ok"
                THEN CourseApiReject("api_create", c, s.res)
                ELSE /\ courseRow' = [courseRow EXCEPT ![c] = s.row]
                     /\ courseObj' = [courseObj EXCEPT ![c] = s.row]
                     /\ Done("api_create", c, "201")
                     /\ UNCHANGED <<now, teacherVerified, educationActive, enrVars, revVars, listed, profVars, lessonRow>>

(* PUT/PATCH /courses/{id}: get_object -> permissions -> serializer.validate
   -> ModelSerializer.update -> instance.save() on a freshly loaded instance *)
CourseApiUpdate(u, c, attrs) ==
    /\ CourseExists(c)
    /\ IF ~IsTeacherOrReadOnly(u, "PATCH")
          \/ ~IsTeacherOwnerOrReadOnly(u, "PATCH", courseRow[c])
       THEN CourseApiReject("api_update", c, "403")
       ELSE IF ~CourseValidate(u, courseRow[c], attrs)
       THEN CourseApiReject("api_update", c, "400")
       ELSE LET s == CourseSave(ApplyAttrs(courseRow[c], attrs), courseRow[c],
                                CourseFields)
            IN  /\ courseRow' = [courseRow EXCEPT ![c] = s.row]
                /\ Done("api_update", c, IF s.res = "ok" THEN "200" ELSE s.res)
                /\ UNCHANGED <<now, teacherVerified, educationActive, courseObj,
                               enrVars, revVars, listed, profVars, lessonRow>>

(* DELETE /courses/{id}: CourseViewSet.destroy -> soft_delete on a freshly
   loaded instance *)
CourseApiDestroy(u, c) ==
    /\ CourseExists(c)
    /\ IF ~IsTeacherOrReadOnly(u, "DELETE")
          \/ ~IsTeacherOwnerOrReadOnly(u, "DELETE", courseRow[c])
       THEN CourseApiReject("api_destroy", c, "403")
       ELSE LET s == soft_delete(courseRow[c], courseRow[c], now)
            IN  /\ courseRow' = [courseRow EXCEPT ![c] = s.row]
                /\ Done("api_destroy", c, IF s.res = "None" THEN "204" ELSE s.res)
                /\ ClockRead(s.tick)
                /\ UNCHANGED <<teacherVerified, educationActive, courseObj,
                               enrVars, revVars, listed, profVars, lessonRow>>

NextCourse ==
    \/ \E t \in Teachers : VerifyTeacher(t)
    \/ \E t \in Teachers : UnverifyTeacher(t)
    \/ EducationSoftDelete
    \/ \E u \in Users, edu \in Educations \cup {NoFK}, attrs \in CourseAttrs :
          CourseApiCreate(u, edu, "Algebra 101", MIN_COURSE_PRICE, attrs)
    \/ \E u \in Users, c \in CourseIds, attrs \in CourseAttrs :
          CourseApiUpdate(u, c, attrs)
    \/ \E u \in Users, c \in CourseIds : CourseApiDestroy(u, c)
    \/ \E c \in CourseIds : CoursePublish(c)
    \/ \E c \in CourseIds : CourseUnpublish(c)
    \/ \E c \in CourseIds : CourseActivate(c)
    \/ \E c \in CourseIds : CourseDeactivate(c)
    \/ \E c \in CourseIds : CourseSoftDelete(c)
    \/ \E c \in CourseIds : CourseRefresh(c)

SpecCourse == Init /\ [][NextCourse]_vars

----------------------------------------------------------------------------
(* The course catalog: several courses of several teachers, created through
   POST /courses, and the list GET /courses returns *)

InitCatalog ==
    /\ now = 1
    /\ teacherVerified = [t \in Teachers |-> TRUE]
    /\ educationActive = TRUE
    /\ courseRow = [c \in CatalogIds |-> NoRow]
    /\ courseObj = [c \in CatalogIds |-> NoRow]
    /\ enrRow = <<>>
    /\ enrObj = <<>>
    /\ req = <<>>
    /\ revRow = <<>>
    /\ revReq = <<>>
    /\ listed = {}
    /\ userRow = [n \in Accounts |-> NoRow]
    /\ profRow = [n \in Accounts |-> NoFK]
    /\ lessonRow = <<>>
    /\ last = [op |-> "init", id |-> 0, arg |-> 0, res |-> "None"]

(* the queryset without the branch for teachers *)
CourseListQueryset_PublishedOnly(u) ==
    {c \in DOMAIN courseRow :
        CourseExists(c) /\ courseRow[c].is_published /\ courseRow[c].is_active}

(* CourseViewSet.get_queryset for action == "list": the primary keys of the
   rows the queryset holds *)
CourseListQueryset(u) ==
    IF is_authenticated(u) /\ user_type(u) = "teacher"
    THEN {c \in DOMAIN courseRow :
            CourseExists(c) /\ teacher_user(courseRow[c].teacher) = u}
    ELSE {c \in DOMAIN courseRow :
            CourseExists(c) /\ courseRow[c].is_published /\ courseRow[c].is_active}

(* GET /courses: safe method, so both permission classes let every actor in;
   the response lists the queryset *)
CourseApiList(u) ==
    /\ IsTeacherOrReadOnly(u, "GET")
    /\ listed' = CourseListQueryset(u)
    /\ last' = [op |-> "api_list", id |-> 0, arg |-> 0, res |-> u]
    /\ UNCHANGED <<now, courseVars, enrVars, revVars, profVars, lessonRow>>

(* the creation payloads of the catalog: one per combination of flags the
   serializer accepts from a teacher *)
CatalogAttrs ==
    {<<>>, [is_published |-> TRUE], [is_active |-> FALSE]}

(* the catalog is filled by the two teacher accounts; the staff account's
   PATCH is the one way to a published course that is not active *)
NextCatalog ==
    \/ \E u \in {"u_t1", "u_t2"}, title \in Titles, attrs \in CatalogAttrs :
          CourseApiCreate(u, NoFK, title, MIN_COURSE_PRICE, attrs)
    \/ \E c \in CatalogIds :
          CourseApiUpdate("admin", c, [is_active |-> FALSE, is_published |-> TRUE])
    \/ \E u \in Users : CourseApiList(u)

SpecCatalog == InitCatalog /\ [][NextCatalog]_vars

----------------------------------------------------------------------------
(* The slug of one course over its life: created through POST /courses,
   retitled through the staff account's PATCH, and taken through the
   lifecycle methods *)

(* a title without a letter or a digit that survives the ASCII folding of
   slugify: its slug is the empty string *)
SymbolTitle == "???"
SlugTitles == {"Algebra 101", SymbolTitle}

InitSlug ==
    /\ now = 1
    /\ teacherVerified = [t \in Teachers |-> TRUE]
    /\ educationActive = TRUE
    /\ courseRow = [c \in CourseIds |-> NoRow]
    /\ courseObj = [c \in CourseIds |-> NoRow]
    /\ enrRow = <<>>
    /\ enrObj = <<>>
    /\ req = <<>>
    /\ revRow = <<>>
    /\ revReq = <<>>
    /\ listed = {}
    /\ userRow = [n \in Accounts |-> NoRow]
    /\ profRow = [n \in Accounts |-> NoFK]
    /\ lessonRow = <<>>
    /\ last = [op |-> "init", id |-> 0, arg |-> 0, res |-> "None"]

NextSlugLife ==
    \/ \E title \in SlugTitles :
          CourseApiCreate("u_t1", NoFK, title, MIN_COURSE_PRICE, <<>>)
    \/ \E c \in CourseIds, title \in SlugTitles :
          CourseApiUpdate("admin", c, [title |-> title])
    \/ \E c \in CourseIds : CoursePublish(c)
    \/ \E c \in CourseIds : CourseUnpublish(c)
    \/ \E c \in CourseIds : CourseActivate(c)
    \/ \E c \in CourseIds : CourseDeactivate(c)
    \/ \E c \in CourseIds : CourseSoftDelete(c)
    \/ \E c \in CourseIds : CourseRefresh(c)

SpecSlug == InitSlug /\ [][NextSlugLife]_vars

----------------------------------------------------------------------------
(* Lessons: rows [chapter, title, order] created by Lesson(...).save() *)

MaxLessons == 3

Chapters == {"ch1", "ch2"}
LessonTitles == {"Intro", "Limits", "Series"}

(* order = models.PositiveSmallIntegerField(default=1, ...) *)
ORDER_DEFAULT == 1

LessonIds == 1..Len(lessonRow)

(* the keyword arguments of Lesson(...): order left out, or given; 0 stands
   for the values that are false in Python (0 and None) *)
LessonKwargs == {<<>>} \cup {[order |-> k] : k \in 0..MaxLessons}

(* Lesson.objects.filter(chapter=ch).aggregate(Max('order')), None read as 0 *)
MaxOf(S) == IF S = {} THEN 0 ELSE CHOOSE y \in S : \A z \in S : z <= y

MaxOrder(rows, ch) ==
    MaxOf({rows[i].order : i \in {j \in 1..Len(rows) : rows[j].chapter = ch}})

(* Lesson.clean: the next order is assigned only to an instance whose order
   is false *)
LessonClean(o) ==
    IF o.order = 0 /\ o.chapter \in Chapters
    THEN [o EXCEPT !.order = MaxOrder(lessonRow, o.chapter) + 1]
    ELSE o

(* full_clean(): clean_fields (MinValueValidator(1), null), then clean(), then
   validate_unique over the unique_together pairs whose fields passed
   clean_fields; the errors of the three are raised together *)
LessonFullClean(o) ==
    LET field_error == o.order < 1
        o1 == LessonClean(o)
        title_taken == \E i \in LessonIds :
                          /\ lessonRow[i].chapter = o1.chapter
                          /\ lessonRow[i].title = o1.title
        order_taken == /\ ~field_error
                       /\ \E i \in LessonIds :
                             /\ lessonRow[i].chapter = o1.chapter
                             /\ lessonRow[i].order = o1.order
    IN  [obj |-> o1,
         res |-> IF field_error \/ title_taken \/ order_taken
                 THEN "ValidationError" ELSE "ok"]

(* Lesson.save on a new instance: validation, then the INSERT *)
LessonSave(o) ==
    LET c == LessonFullClean(o)
    IN  [obj |-> c.obj,
         rows |-> IF c.res = "ok" THEN Append(lessonRow, c.obj) ELSE lessonRow,
         res |-> c.res]

(* Lesson(chapter=ch, title=title, **kwargs).save() *)
LessonCreate(ch, title, kwargs) ==
    /\ Len(lessonRow) < MaxLessons
    /\ LET o == [chapter |-> ch, title |-> title,
                 order |-> Get(kwargs, "order", ORDER_DEFAULT)]
           s == LessonSave(o)
       IN  /\ lessonRow' = s.rows
           /\ DoneArg("lesson_create", IF s.res = "ok" THEN Len(s.rows) ELSE 0,
                      s.obj.order, s.res)
    /\ UNCHANGED <<now, courseVars, enrVars, revVars, listed, profVars>>

NextLesson ==
    \E ch \in Chapters, title \in LessonTitles, kwargs \in LessonKwargs :
        LessonCreate(ch, title, kwargs)

SpecLesson == Init /\ [][NextLesson]_vars

----------------------------------------------------------------------------
(* POST /courses, statement by statement: the slug scan of Course.save, the
   queries of full_clean(), the INSERT.  Requests of different workers
   interleave between the three. *)

(* the UNIQUE indexes of the table without effect *)
CourseUniqueIndexes_None(o) == TRUE

(* the UNIQUE index of slug (unique=True) and the one of Meta.unique_together,
   as the database applies them to the INSERT of o *)
CourseUniqueIndexes(o) ==
    /\ ~SlugTaken(o.slug, NoRow)
    /\ CourseUniqueTogether(o, NoRow)

InitCourseCreate ==
    /\ now = 1
    /\ teacherVerified = [t \in Teachers |-> TRUE]
    /\ educationActive = TRUE
    /\ courseRow = [c \in CatalogIds |-> NoRow]
    /\ courseObj = [c \in CatalogIds |-> NoRow]
    /\ enrRow = <<>>
    /\ enrObj = <<>>
    /\ req = [w \in Workers |-> [pc |-> "idle"]]
    /\ revRow = <<>>
    /\ revReq = <<>>
    /\ listed = {}
    /\ userRow = [n \in Accounts |-> NoRow]
    /\ profRow = [n \in Accounts |-> NoFK]
    /\ lessonRow = <<>>
    /\ last = [op |-> "init", id |-> 0, arg |-> 0, res |-> "None"]

CourseCreateOther ==
    <<now, teacherVerified, educationActive, enrRow, enrObj, revVars, listed,
      profVars, lessonRow>>

(* permissions, serializer, perform_create, and the while loop of Course.save
   reading the slugs in use *)
CoursePostScan(w, u, title) ==
    /\ req[w].pc = "idle"
    /\ IF ~IsTeacherOrReadOnly(u, "POST")
       THEN /\ Done("course_scan", 0, "403")
            /\ UNCHANGED req
       ELSE IF ~CourseValidate(u, NoRow, <<>>)
       THEN /\ Done("course_scan", 0, "400")
            /\ UNCHANGED req
       ELSE IF teacher_profile(u) = NoFK
       THEN /\ Done("course_scan", 0, "error")
            /\ UNCHANGED req
       ELSE LET o == [teacher |-> teacher_profile(u),
                      education |-> NoFK,
                      title |-> title,
                      slug |-> "",
                      price |-> MIN_COURSE_PRICE,
                      is_active |-> TRUE,
                      is_published |-> FALSE,
                      published_at |-> NULL,
                      deleted_at |-> NULL]
            IN  /\ req' = [req EXCEPT ![w] =
                             [pc |-> "scanned",
                              obj |-> [o EXCEPT !.slug = GenerateSlug(o, NoRow)]]]
                /\ Done("course_scan", 0, "ok")
    /\ UNCHANGED <<CourseCreateOther, courseRow, courseObj>>

(* full_clean(): Course.clean and validate_unique, which queries slug and
   (teacher, title) *)
CoursePostClean(w) ==
    /\ req[w].pc = "scanned"
    /\ LET o == req[w].obj
           fails == \/ CourseCleanFails(o)
                    \/ SlugTaken(o.slug, NoRow)
                    \/ ~CourseUniqueTogether(o, NoRow)
       IN  /\ req' = [req EXCEPT ![w] =
                        IF fails THEN [pc |-> "idle"]
                        ELSE [pc |-> "cleaned", obj |-> o]]
           /\ Done("course_clean", 0, IF fails THEN "ValidationError" ELSE "ok")
    /\ UNCHANGED <<CourseCreateOther, courseRow, courseObj>>

(* super().save(): the INSERT, which the UNIQUE indexes decide *)
CoursePostInsert(w) ==
    /\ req[w].pc = "cleaned"
    /\ LET o == req[w].obj
       IN  IF ~CourseUniqueIndexes(o)
           THEN /\ Done("course_insert", 0, "IntegrityError")
                /\ UNCHANGED <<courseRow, courseObj>>
           ELSE /\ NextCourseId # 0
                /\ courseRow' = [courseRow EXCEPT ![NextCourseId] = o]
                /\ courseObj' = [courseObj EXCEPT ![NextCourseId] = o]
                /\ Done("course_insert", NextCourseId, "201")
    /\ req' = [req EXCEPT ![w] = [pc |-> "idle"]]
    /\ UNCHANGED CourseCreateOther

NextCourseCreate ==
    \/ \E w \in Workers, u \in {"u_t1", "u_t2", "u_s1"}, title \in Titles :
          CoursePostScan(w, u, title)
    \/ \E w \in Workers : CoursePostClean(w)
    \/ \E w \in Workers : CoursePostInsert(w)
    \/ \E c \in CatalogIds, title \in Titles :
          CourseApiUpdate("admin", c, [title |-> title])

SpecCourseCreate == InitCourseCreate /\ [][NextCourseCreate]_vars

----------------------------------------------------------------------------
(* Enrollment: persistence *)

STATUS_PENDING == "pending"
STATUS_ACTIVE == "active"
STATUS_COMPLETED == "completed"
STATUS_CANCELLED == "cancelled"
STATUS_REFUNDED == "refunded"
STATUS_EXPIRED == "expired"
STATUS_CHOICES == {STATUS_PENDING, STATUS_ACTIVE, STATUS_COMPLETED,
                   STATUS_CANCELLED, STATUS_REFUNDED, STATUS_EXPIRED}

EnrollmentFields == {"student", "course", "status", "transaction_id",
                     "price_paid", "original_price", "discount_amount",
                     "refund_amount", "refund_reason", "refunded_at",
                     "completion_percentage", "completed_at", "activated_at",
                     "last_accessed_at"}

EnrIds == 1..Len(enrRow)

(* Enrollment.Meta.unique_together = [["student", "course"]]: no other row
   has this (student, course), whatever its status.  Django derives from it
   both the validate_unique() query of full_clean() and the UNIQUE index. *)
UniqueTogether_None(rows, self, st, c) == TRUE

UniqueTogether(rows, self, st, c) ==
    ~\E i \in 1..Len(rows) :
        /\ i # self
        /\ rows[i].student = st /\ rows[i].course = c

(* transaction_id: unique=True plus the conditional UniqueConstraint *)
UniqueTransaction(rows, self, tid) ==
    \/ tid = NoFK
    \/ ~\E i \in 1..Len(rows) : i # self /\ rows[i].transaction_id = tid

(* full_clean() without the validators of completion_percentage *)
EnrollmentCleanFails_NoPercentage(o, self) ==
    \/ o.status \notin STATUS_CHOICES
    \/ o.price_paid = NoAmount \/ o.price_paid < 0
    \/ o.original_price = NoAmount \/ o.original_price < 0
    \/ o.discount_amount < 0
    \/ o.refund_amount # NoAmount /\ o.refund_amount < 0
    \/ ~UniqueTogether(enrRow, self, o.student, o.course)
    \/ ~UniqueTransaction(enrRow, self, o.transaction_id)

(* full_clean() of an Enrollment: the field validators, then validate_unique *)
EnrollmentCleanFails(o, self) ==
    \/ o.status \notin STATUS_CHOICES
    \/ o.price_paid = NoAmount \/ o.price_paid < 0
    \/ o.original_price = NoAmount \/ o.original_price < 0
    \/ o.discount_amount < 0
    \/ o.refund_amount # NoAmount /\ o.refund_amount < 0
    \/ o.completion_percentage < 0 \/ o.completion_percentage > 100
    \/ ~UniqueTogether(enrRow, self, o.student, o.course)
    \/ ~UniqueTransaction(enrRow, self, o.transaction_id)

(* Enrollment.save up to and including full_clean(): the price defaults, the
   auto-complete hook, the validation.  The module binds the name timezone to
   datetime.timezone (line 1), which has no now(): the hook's
   timezone.now() raises AttributeError. *)
EnrollmentPreSave(o, self) ==
    LET o1 == [o EXCEPT !.original_price =
                   IF @ = NoAmount /\ o.course \in CourseIds
                   THEN courseRow[o.course].price ELSE @]
        o2 == [o1 EXCEPT !.price_paid =
                   IF @ = NoAmount THEN o1.original_price - o1.discount_amount
                   ELSE @]
    IN  IF o2.completion_percentage = 100 /\ o2.completed_at = NULL
        THEN [obj |-> o2, res |-> "AttributeError"]
        ELSE IF EnrollmentCleanFails(o2, self)
        THEN [obj |-> o2, res |-> "ValidationError"]
        ELSE [obj |-> o2, res |-> "ok"]

(* Enrollment.save on an existing row: save(update_fields=F) always adds
   completed_at and status to F *)
EnrollmentSave(o, r, F, self) ==
    LET p == EnrollmentPreSave(o, self)
    IN  IF p.res # "ok"
        THEN [obj |-> p.obj, row |-> r, res |-> p.res]
        ELSE [obj |-> p.obj,
              row |-> SaveFields(r, p.obj, F \cup {"completed_at", "status"}),
              res |-> "ok"]

(* the Enrollment instance the create serializer builds from validated_data *)
NewEnrollment(st, c) ==
    [student |-> st, course |-> c, status |-> STATUS_PENDING,
     transaction_id |-> NoFK, price_paid |-> 0, original_price |-> NoAmount,
     discount_amount |-> 0, refund_amount |-> NoAmount, refund_reason |-> "",
     refunded_at |-> NULL, completion_percentage |-> 0, completed_at |-> NULL,
     activated_at |-> NULL, last_accessed_at |-> NULL]

----------------------------------------------------------------------------
(* Enrollment: state-machine methods, as functions of (instance, row).
   Every method but cancel() reaches timezone.now() before its save() and
   ends there with AttributeError, the instance already mutated. *)

Raised(o, r, exc) == [obj |-> o, row |-> r, res |-> exc]

enr_activate(o, r, transaction_id) ==
    IF o.status = STATUS_ACTIVE
    THEN Raised(o, r, "False")
    ELSE Raised([o EXCEPT !.status = STATUS_ACTIVE], r, "AttributeError")

enr_complete(o, r) ==
    IF o.status = STATUS_COMPLETED
    THEN Raised(o, r, "False")
    ELSE Raised([o EXCEPT !.status = STATUS_COMPLETED,
                          !.completion_percentage = 100],
                r, "AttributeError")

enr_cancel(o, r, reason, self) ==
    IF o.status \in {STATUS_CANCELLED, STATUS_REFUNDED}
    THEN Raised(o, r, "False")
    ELSE LET o1 == [o EXCEPT !.status = STATUS_CANCELLED,
                             !.refund_reason = IF reason # "" THEN reason ELSE @]
             s == EnrollmentSave(o1, r, {"status", "refund_reason"}, self)
         IN  [s EXCEPT !.res = IF s.res = "ok" THEN "True" ELSE s.res]

(* refund() with the amount validated before the status is looked at *)
enr_refund_AmountFirst(o, r, amount, reason) ==
    IF amount > o.price_paid
    THEN Raised(o, r, "ValidationError")
    ELSE IF o.status = STATUS_REFUNDED
    THEN Raised(o, r, "False")
    ELSE Raised([o EXCEPT !.status = STATUS_REFUNDED,
                          !.refund_amount = amount,
                          !.refund_reason = reason],
                r, "AttributeError")

enr_refund(o, r, amount, reason) ==
    IF o.status = STATUS_REFUNDED
    THEN Raised(o, r, "False")
    ELSE IF amount > o.price_paid
    THEN Raised(o, r, "ValidationError")
    ELSE Raised([o EXCEPT !.status = STATUS_REFUNDED,
                          !.refund_amount = amount,
                          !.refund_reason = reason],
                r, "AttributeError")

(* update_progress() with a clock that can be read: the one path of the two
   that completes *)
enr_update_progress_Patched(o, r, percentage) ==
    IF ~(0 <= percentage /\ percentage <= 100)
    THEN Raised(o, r, "ValueError")
    ELSE LET o1 == [o EXCEPT !.completion_percentage = percentage,
                             !.last_accessed_at = now]
             o2 == IF percentage = 100 /\ o1.completed_at = NULL
                   THEN [o1 EXCEPT !.completed_at = now,
                                   !.status = STATUS_COMPLETED]
                   ELSE o1
         IN  [obj |-> o2, row |-> o2, res |-> "None"]

enr_update_progress(o, r, percentage) ==
    IF ~(0 <= percentage /\ percentage <= 100)
    THEN Raised(o, r, "ValueError")
    ELSE Raised([o EXCEPT !.completion_percentage = percentage],
                r, "AttributeError")

(* the generic path to a percentage: the caller assigns
   completion_percentage and calls save(), whose hook auto-completes *)
save_completion(o, r, percentage, self) ==
    EnrollmentSave([o EXCEPT !.completion_percentage = percentage], r,
                   EnrollmentFields, self)

----------------------------------------------------------------------------
(* Enrollment: permissions and the serializer of the API boundary *)

(* IsStudent.has_permission *)
IsStudent(u) ==
    /\ is_authenticated(u)
    /\ is_staff(u) \/ is_superuser(u) \/ user_type(u) = "student"

(* the rule without the branch for the teacher of the course *)
IsEnrollmentOwner_StudentOnly(u, e) ==
    IF is_staff(u) \/ is_superuser(u) THEN TRUE
    ELSE IF is_authenticated(u) /\ user_type(u) = "student"
    THEN student_user(e.student) = u
    ELSE FALSE

(* IsEnrollmentOwner.has_object_permission *)
IsEnrollmentOwner(u, e) ==
    IF is_staff(u) \/ is_superuser(u) THEN TRUE
    ELSE IF is_authenticated(u) /\ user_type(u) = "student"
    THEN student_user(e.student) = u
    ELSE IF is_authenticated(u) /\ user_type(u) = "teacher"
    THEN teacher_user(courseRow[e.course].teacher) = u
    ELSE FALSE

(* CourseEnrollmentViewSet.get_queryset: the rows get_object() can find *)
EnrollmentVisible(u, e) ==
    /\ e.status \in {STATUS_ACTIVE, STATUS_COMPLETED}
    /\ IF ~is_authenticated(u) THEN FALSE
       ELSE IF is_staff(u) \/ is_superuser(u) THEN TRUE
       ELSE IF user_type(u) = "student" THEN student_user(e.student) = u
       ELSE IF user_type(u) = "teacher"
       THEN teacher_user(courseRow[e.course].teacher) = u
       ELSE FALSE

(* the validation without the test of the course's flags *)
EnrollmentValidate_NoCourseCheck(u, c) ==
    IF student_profile(u) = NoFK THEN "not_student"
    ELSE IF \E i \in EnrIds :
              /\ enrRow[i].student = student_profile(u)
              /\ enrRow[i].course = c
              /\ enrRow[i].status \notin {STATUS_CANCELLED, STATUS_REFUNDED}
    THEN "already_enrolled"
    ELSE "ok"

(* CourseEnrollmentCreateSerializer.validate: "ok" or the rejection *)
EnrollmentValidate(u, c) ==
    IF student_profile(u) = NoFK THEN "not_student"
    ELSE IF \E i \in EnrIds :
              /\ enrRow[i].student = student_profile(u)
              /\ enrRow[i].course = c
              /\ enrRow[i].status \notin {STATUS_CANCELLED, STATUS_REFUNDED}
    THEN "already_enrolled"
    ELSE IF ~courseRow[c].is_active \/ ~courseRow[c].is_published
    THEN "not_available"
    ELSE "ok"

----------------------------------------------------------------------------
(* Enrollment specifications start from a populated course table: every
   course exists, owned by t1, with lifecycle flags as the course operations
   can leave them. *)

InitEnroll ==
    /\ now = 1
    /\ teacherVerified = [t \in Teachers |-> TRUE]
    /\ educationActive = TRUE
    /\ courseRow \in [CourseIds ->
          {[teacher |-> "t1", education |-> NoFK, title |-> "Algebra 101",
            slug |-> "algebra-101", price |-> MIN_COURSE_PRICE,
            is_active |-> a, is_published |-> p,
            published_at |-> NULL, deleted_at |-> NULL] :
              a \in BOOLEAN, p \in BOOLEAN}]
    /\ courseObj = courseRow
    /\ enrRow = <<>>
    /\ enrObj = <<>>
    /\ req = [w \in Workers |-> [pc |-> "idle"]]
    /\ revRow = <<>>
    /\ revReq = <<>>
    /\ listed = {}
    /\ userRow = [n \in Accounts |-> NoRow]
    /\ profRow = [n \in Accounts |-> NoFK]
    /\ lessonRow = <<>>
    /\ last = [op |-> "init", id |-> 0, arg |-> 0, res |-> "None"]

EnrOther == <<now, courseVars, revVars, listed, profVars, lessonRow>>

(* an API request that ends without a write *)
EnrApiReject(op, id, res) ==
    /\ Done(op, id, res)
    /\ UNCHANGED <<now, courseVars, enrVars, revVars, listed, profVars, lessonRow>>

----------------------------------------------------------------------------
(* POST /enrollments, statement by statement: the serializer's existence
   query, the validate_unique() query of full_clean(), the INSERT.  Requests
   of different workers interleave between the three. *)

EnrollPostValidate(w, u, c) ==
    /\ req[w].pc = "idle"
    /\ IF ~IsStudent(u)
       THEN EnrApiReject("enroll_validate", 0, "403")
       ELSE IF EnrollmentValidate(u, c) # "ok"
       THEN EnrApiReject("enroll_validate", 0, EnrollmentValidate(u, c))
       ELSE /\ req' = [req EXCEPT ![w] = [pc |-> "validated",
                                         obj |-> NewEnrollment(student_profile(u), c)]]
            /\ Done("enroll_validate", 0, "ok")
            /\ UNCHANGED <<EnrOther, enrRow, enrObj>>

EnrollPostClean(w) ==
    /\ req[w].pc = "validated"
    /\ LET p == EnrollmentPreSave(req[w].obj, 0)
       IN  /\ req' = [req EXCEPT ![w] =
                        IF p.res = "ok" THEN [pc |-> "cleaned", obj |-> p.obj]
                        ELSE [pc |-> "idle"]]
           /\ Done("enroll_clean", 0, p.res)
    /\ UNCHANGED <<EnrOther, enrRow, enrObj>>

(* the INSERT: the UNIQUE index of unique_together decides *)
EnrollPostInsert(w) ==
    /\ req[w].pc = "cleaned"
    /\ LET o == req[w].obj
       IN  IF ~UniqueTogether(enrRow, 0, o.student, o.course)
           THEN /\ Done("enroll_insert", 0, "IntegrityError")
                /\ UNCHANGED <<enrRow, enrObj>>
           ELSE /\ Len(enrRow) < MaxEnrollments
                /\ enrRow' = Append(enrRow, o)
                /\ enrObj' = Append(enrObj, o)
                /\ Done("enroll_insert", Len(enrRow) + 1, "201")
    /\ req' = [req EXCEPT ![w] = [pc |-> "idle"]]
    /\ UNCHANGED EnrOther

(* a method call on the held instance: outcome s of the method *)
EnrCall(op, e, arg, s) ==
    /\ enrObj' = [enrObj EXCEPT ![e] = s.obj]
    /\ enrRow' = [enrRow EXCEPT ![e] = s.row]
    /\ DoneArg(op, e, arg, s.res)
    /\ UNCHANGED <<EnrOther, req>>

Reasons == {"", "changed my mind"}

EnrCancel(e, reason) ==
    EnrCall("cancel", e, 0, enr_cancel(enrObj[e], enrRow[e], reason, e))

(* Model.refresh_from_db / a fresh Enrollment.objects.get *)
EnrRefresh(e) ==
    /\ enrObj[e] # enrRow[e]
    /\ enrObj' = [enrObj EXCEPT ![e] = enrRow[e]]
    /\ Done("refresh", e, "None")
    /\ UNCHANGED <<EnrOther, enrRow, req>>

(* the admin change form of the registered Enrollment model: a staff user
   edits status and price_paid of a freshly loaded instance and saves it *)
EnrAdminChange(e, st, paid) ==
    LET s == EnrollmentSave([enrRow[e] EXCEPT !.status = st, !.price_paid = paid],
                            enrRow[e], EnrollmentFields, e)
    IN  /\ enrRow' = [enrRow EXCEPT ![e] = s.row]
        /\ Done("admin_change", e, s.res)
        /\ UNCHANGED <<EnrOther, enrObj, req>>

(* DELETE /enrollments/{id}: CourseEnrollmentViewSet.destroy -> cancel() on a
   freshly loaded instance *)
EnrApiDestroy(u, e) ==
    IF ~is_authenticated(u)
    THEN EnrApiReject("enroll_destroy", e, "403")
    ELSE IF ~EnrollmentVisible(u, enrRow[e])
    THEN EnrApiReject("enroll_destroy", e, "404")
    ELSE IF ~IsEnrollmentOwner(u, enrRow[e])
    THEN EnrApiReject("enroll_destroy", e, "403")
    ELSE IF enrRow[e].status \in {STATUS_CANCELLED, STATUS_REFUNDED}
    THEN EnrApiReject("enroll_destroy", e, "400")
    ELSE LET s == enr_cancel(enrRow[e], enrRow[e], "User requested cancellation", e)
         IN  /\ enrRow' = [enrRow EXCEPT ![e] = s.row]
             /\ Done("enroll_destroy", e, IF s.res = "True" THEN "204" ELSE s.res)
             /\ UNCHANGED <<EnrOther, enrObj, req>>

PricesPaid == {0, MIN_COURSE_PRICE}

NextEnrollCreate ==
    \/ \E w \in Workers, u \in Users, c \in CourseIds : EnrollPostValidate(w, u, c)
    \/ \E w \in Workers : EnrollPostClean(w)
    \/ \E w \in Workers : EnrollPostInsert(w)
    \/ \E e \in EnrIds, reason \in Reasons : EnrCancel(e, reason)
    \/ \E e \in EnrIds : EnrRefresh(e)
    \/ \E e \in EnrIds, st \in STATUS_CHOICES : EnrAdminChange(e, st, enrRow[e].price_paid)
    \/ \E u \in Users, e \in EnrIds : EnrApiDestroy(u, e)

SpecEnrollCreate == InitEnroll /\ [][NextEnrollCreate]_vars

----------------------------------------------------------------------------
(* The enrollment state machine, one request at a time: creation by a single
   worker, the admin form, and the methods called on the held instance *)

EnrActivate(e, tid) ==
    EnrCall("activate", e, 0, enr_activate(enrObj[e], enrRow[e], tid))

EnrComplete(e) ==
    EnrCall("complete", e, 0, enr_complete(enrObj[e], enrRow[e]))

EnrRefund(e, amount, reason) ==
    EnrCall("refund", e, amount, enr_refund(enrObj[e], enrRow[e], amount, reason))

EnrUpdateProgress(e, percentage) ==
    EnrCall("update_progress", e, percentage,
            enr_update_progress(enrObj[e], enrRow[e], percentage))

TransactionIds == {NoFK, "tx1"}
RefundAmounts == {0, MIN_COURSE_PRICE, MIN_COURSE_PRICE + 1}
Percentages == {-1, 50, 100, 101}

NextEnroll ==
    \/ \E u \in Users, c \in CourseIds : EnrollPostValidate(1, u, c)
    \/ EnrollPostClean(1)
    \/ EnrollPostInsert(1)
    \/ \E e \in EnrIds, st \in STATUS_CHOICES, paid \in PricesPaid :
          EnrAdminChange(e, st, paid)
    \/ \E e \in EnrIds, tid \in TransactionIds : EnrActivate(e, tid)
    \/ \E e \in EnrIds : EnrComplete(e)
    \/ \E e \in EnrIds, reason \in Reasons : EnrCancel(e, reason)
    \/ \E e \in EnrIds, amount \in RefundAmounts, reason \in Reasons :
          EnrRefund(e, amount, reason)
    \/ \E e \in EnrIds, percentage \in Percentages : EnrUpdateProgress(e, percentage)
    \/ \E e \in EnrIds : EnrRefresh(e)

SpecEnroll == InitEnroll /\ [][NextEnroll]_vars

----------------------------------------------------------------------------
(* The transition methods of both entities side by side: an enrollment is
   created and moved through its statuses while its course is published and
   unpublished *)

NextTransitions ==
    \/ \E c \in CourseIds : EnrollPostValidate(1, "u_s1", c)
    \/ EnrollPostClean(1)
    \/ EnrollPostInsert(1)
    \/ \E e \in EnrIds, st \in STATUS_CHOICES :
          EnrAdminChange(e, st, MIN_COURSE_PRICE)
    \/ \E e \in EnrIds, tid \in TransactionIds : EnrActivate(e, tid)
    \/ \E e \in EnrIds : EnrComplete(e)
    \/ \E e \in EnrIds, reason \in Reasons : EnrCancel(e, reason)
    \/ \E e \in EnrIds, amount \in RefundAmounts, reason \in Reasons :
          EnrRefund(e, amount, reason)
    \/ \E e \in EnrIds : EnrRefresh(e)
    \/ \E c \in CourseIds : CoursePublish(c)
    \/ \E c \in CourseIds : CourseUnpublish(c)

SpecTransitions == InitEnroll /\ [][NextTransitions]_vars

----------------------------------------------------------------------------
(* Payment references: two students enrol in the course, the staff user
   records transaction ids through the admin form, activate() is called with
   one *)

(* the admin change form: a staff user edits transaction_id of a freshly
   loaded instance and saves it *)
EnrAdminSetTransaction(e, tid) ==
    LET s == EnrollmentSave([enrRow[e] EXCEPT !.transaction_id = tid],
                            enrRow[e], EnrollmentFields, e)
    IN  /\ enrRow' = [enrRow EXCEPT ![e] = s.row]
        /\ DoneArg("admin_transaction", e, 0, s.res)
        /\ UNCHANGED <<EnrOther, enrObj, req>>

PaymentIds == {NoFK, "tx1", "tx2"}

NextTransaction ==
    \/ \E u \in {"u_s1", "staff_s2"}, c \in CourseIds : EnrollPostValidate(1, u, c)
    \/ EnrollPostClean(1)
    \/ EnrollPostInsert(1)
    \/ \E e \in EnrIds, tid \in PaymentIds : EnrAdminSetTransaction(e, tid)
    \/ \E e \in EnrIds, tid \in PaymentIds : EnrActivate(e, tid)
    \/ \E e \in EnrIds : EnrRefresh(e)

SpecTransaction == InitEnroll /\ [][NextTransaction]_vars

----------------------------------------------------------------------------
(* Progress: one enrollment taken to a percentage by update_progress() and
   by the generic save, with the admin form beside them *)

EnrSaveCompletion(e, percentage) ==
    EnrCall("save_completion", e, percentage,
            save_completion(enrObj[e], enrRow[e], percentage, e))

(* the admin change form: a staff user edits completed_at of a freshly
   loaded instance and saves it *)
EnrAdminSetCompleted(e, t) ==
    LET s == EnrollmentSave([enrRow[e] EXCEPT !.completed_at = t],
                            enrRow[e], EnrollmentFields, e)
    IN  /\ enrRow' = [enrRow EXCEPT ![e] = s.row]
        /\ DoneArg("admin_completed", e, 0, s.res)
        /\ UNCHANGED <<EnrOther, enrObj, req>>

CompletedAts == {NULL, 1}

NextProgress ==
    \/ \E c \in CourseIds : EnrollPostValidate(1, "u_s1", c)
    \/ EnrollPostClean(1)
    \/ EnrollPostInsert(1)
    \/ \E e \in EnrIds, st \in STATUS_CHOICES :
          EnrAdminChange(e, st, MIN_COURSE_PRICE)
    \/ \E e \in EnrIds, t \in CompletedAts : EnrAdminSetCompleted(e, t)
    \/ \E e \in EnrIds, percentage \in Percentages : EnrUpdateProgress(e, percentage)
    \/ \E e \in EnrIds, percentage \in Percentages : EnrSaveCompletion(e, percentage)
    \/ \E e \in EnrIds : EnrComplete(e)
    \/ \E e \in EnrIds, reason \in Reasons : EnrCancel(e, reason)
    \/ \E e \in EnrIds : EnrRefresh(e)

SpecProgress == InitEnroll /\ [][NextProgress]_vars

----------------------------------------------------------------------------
(* The five methods alone: one enrollment, created through the API and
   priced through the admin form, moved only by activate, complete, cancel,
   refund and update_progress *)

NextMethods ==
    \/ \E c \in CourseIds : EnrollPostValidate(1, "u_s1", c)
    \/ EnrollPostClean(1)
    \/ EnrollPostInsert(1)
    \/ \E e \in EnrIds, paid \in PricesPaid :
          EnrAdminChange(e, enrRow[e].status, paid)
    \/ \E e \in EnrIds, tid \in TransactionIds : EnrActivate(e, tid)
    \/ \E e \in EnrIds : EnrComplete(e)
    \/ \E e \in EnrIds, reason \in Reasons : EnrCancel(e, reason)
    \/ \E e \in EnrIds, amount \in RefundAmounts, reason \in Reasons :
          EnrRefund(e, amount, reason)
    \/ \E e \in EnrIds, percentage \in Percentages : EnrUpdateProgress(e, percentage)
    \/ \E e \in EnrIds : EnrRefresh(e)

SpecMethods == InitEnroll /\ [][NextMethods]_vars

----------------------------------------------------------------------------
(* Course.can_enroll(student), asked about the enrollments the API and the
   admin form have produced *)

NOT_ACTIVE == "Course is not currently active"
NOT_PUBLISHED == "Course is not published yet"
ALREADY_ENROLLED == "You are already enrolled in this course"

(* the check with a filter on (student, course) alone *)
can_enroll_AnyStatus(o, c, st) ==
    IF ~o.is_active THEN <<FALSE, NOT_ACTIVE>>
    ELSE IF ~o.is_published THEN <<FALSE, NOT_PUBLISHED>>
    ELSE IF \E i \in EnrIds : enrRow[i].student = st /\ enrRow[i].course = c
    THEN <<FALSE, ALREADY_ENROLLED>>
    ELSE <<TRUE, "">>

(* Course.can_enroll on the instance o of course c: the pair it returns *)
can_enroll(o, c, st) ==
    IF ~o.is_active THEN <<FALSE, NOT_ACTIVE>>
    ELSE IF ~o.is_published THEN <<FALSE, NOT_PUBLISHED>>
    ELSE IF \E i \in EnrIds : /\ enrRow[i].student = st
                              /\ enrRow[i].course = c
                              /\ enrRow[i].status = "active"
    THEN <<FALSE, ALREADY_ENROLLED>>
    ELSE <<TRUE, "">>

CanEnroll(c, st) ==
    /\ CourseExists(c)
    /\ LET r == can_enroll(courseObj[c], c, st)
       IN  last' = [op |-> "can_enroll", id |-> c, arg |-> 0, res |-> r[2],
                    allowed |-> r[1], student |-> st]
    /\ UNCHANGED <<EnrOther, enrVars>>

NextCanEnroll ==
    \/ \E u \in {"u_s1", "staff_s2"}, c \in CourseIds : EnrollPostValidate(1, u, c)
    \/ EnrollPostClean(1)
    \/ EnrollPostInsert(1)
    \/ \E e \in EnrIds, st \in STATUS_CHOICES :
          EnrAdminChange(e, st, enrRow[e].price_paid)
    \/ \E c \in CourseIds, st \in {"s1", "s2"} : CanEnroll(c, st)

SpecCanEnroll == InitEnroll /\ [][NextCanEnroll]_vars

----------------------------------------------------------------------------
(* Review: persistence and the API boundary *)

MaxReviews == 2
MIN_RATING == 1
MAX_RATING == 5

ReviewUsers == Users \cup {"staff_s2"}
ReviewStudents == {"s1", "s2"}
RevIds == 1..Len(revRow)

(* Review.clean: the reviewed student holds an enrollment for the course in
   status active or completed *)
has_enrollment(st, c) ==
    \E i \in EnrIds :
        /\ enrRow[i].student = st /\ enrRow[i].course = c
        /\ enrRow[i].status \in {STATUS_ACTIVE, STATUS_COMPLETED}

(* Review.Meta.unique_together (student, course), over the rows *)
ReviewUniqueTogether_None(rows, st, c) == TRUE

ReviewUniqueTogether(rows, st, c) ==
    ~\E i \in 1..Len(rows) : rows[i].student = st /\ rows[i].course = c

(* Review.clean without its enrollment check *)
ReviewClean_NoCheck(o) == TRUE

(* Review.clean: TRUE when the instance passes *)
ReviewClean(o) == has_enrollment(o.student, o.course)

(* full_clean() of a new Review: the rating validators, clean(), then
   validate_unique *)
ReviewCleanFails(o) ==
    \/ o.rating < MIN_RATING \/ o.rating > MAX_RATING
    \/ ~ReviewClean(o)
    \/ ~ReviewUniqueTogether(revRow, o.student, o.course)

(* IsStudentOrAdmin.has_permission *)
IsStudentOrAdmin(u, action) ==
    IF action = "list"
    THEN is_authenticated(u) /\ (is_staff(u) \/ is_superuser(u))
    ELSE is_authenticated(u)

(* IsStudentOrAdmin.has_object_permission *)
IsStudentOrAdminObject(u, r) ==
    IF is_staff(u) \/ is_superuser(u) THEN TRUE
    ELSE student_user(r.student) = u

(* CourseReviewViewSet.get_queryset: the rows get_object() can find *)
ReviewVisible(u, r) ==
    IF is_staff(u) \/ is_superuser(u) THEN TRUE
    ELSE IF user_type(u) = "student" THEN student_user(r.student) = u
    ELSE IF user_type(u) = "teacher"
    THEN teacher_user(courseRow[r.course].teacher) = u
    ELSE FALSE

(* CourseReviewCreateSerializer: the rating validators and validate_course
   (field level), then validate(): "ok" or the rejection *)
ReviewValidate(u, c, rating) ==
    IF rating < MIN_RATING \/ rating > MAX_RATING THEN "invalid_rating"
    ELSE IF ~(courseRow[c].is_active \/ courseRow[c].is_published)
    THEN "course_unavailable"
    ELSE IF is_staff(u) \/ is_superuser(u) THEN "ok"
    ELSE IF student_profile(u) = NoFK THEN "not_student"
    ELSE IF ~has_enrollment(student_profile(u), c) THEN "not_enrolled"
    ELSE IF ~ReviewUniqueTogether(revRow, student_profile(u), c)
    THEN "already_reviewed"
    ELSE "ok"

RevOther == <<now, courseVars, enrVars, listed, profVars, lessonRow>>

RevApiReject(op, id, res) ==
    /\ Done(op, id, res)
    /\ UNCHANGED <<RevOther, revVars>>

(* POST /reviews, first step: permission, serializer validation, and
   create()'s lookup of request.user.student_profile, which raises for a user
   without a student profile *)
ReviewPostValidate(w, u, c, rating) ==
    /\ revReq[w].pc = "idle"
    /\ IF ~IsStudentOrAdmin(u, "create")
       THEN RevApiReject("review_validate", 0, "403")
       ELSE IF ReviewValidate(u, c, rating) # "ok"
       THEN RevApiReject("review_validate", 0, ReviewValidate(u, c, rating))
       ELSE IF student_profile(u) = NoFK
       THEN RevApiReject("review_validate", 0, "RelatedObjectDoesNotExist")
       ELSE /\ revReq' = [revReq EXCEPT ![w] =
                            [pc |-> "validated", user |-> u,
                             obj |-> [student |-> student_profile(u),
                                      course |-> c, rating |-> rating]]]
            /\ Done("review_validate", 0, "ok")
            /\ UNCHANGED <<RevOther, revRow>>

(* second step: Review.save runs full_clean() *)
ReviewPostClean(w) ==
    /\ revReq[w].pc = "validated"
    /\ IF ReviewCleanFails(revReq[w].obj)
       THEN /\ revReq' = [revReq EXCEPT ![w] = [pc |-> "idle"]]
            /\ Done("review_clean", 0, "ValidationError")
       ELSE /\ revReq' = [revReq EXCEPT ![w].pc = "cleaned"]
            /\ Done("review_clean", 0, "ok")
    /\ UNCHANGED <<RevOther, revRow>>

(* third step: the INSERT, under the table's unique constraint *)
ReviewPostInsert(w) ==
    /\ revReq[w].pc = "cleaned"
    /\ LET o == revReq[w].obj
       IN  IF ~ReviewUniqueTogether(revRow, o.student, o.course)
           THEN /\ Done("review_insert", 0, "IntegrityError")
                /\ UNCHANGED revRow
           ELSE /\ Len(revRow) < MaxReviews
                /\ revRow' = Append(revRow, o)
                /\ Done("review_insert", Len(revRow) + 1, "201")
    /\ revReq' = [revReq EXCEPT ![w] = [pc |-> "idle"]]
    /\ UNCHANGED RevOther

(* DELETE /reviews/{id}: ModelViewSet.destroy deletes the row *)
ReviewApiDestroy(u, r) ==
    IF ~IsStudentOrAdmin(u, "destroy")
    THEN RevApiReject("review_destroy", r, "403")
    ELSE IF ~ReviewVisible(u, revRow[r])
    THEN RevApiReject("review_destroy", r, "404")
    ELSE IF ~IsStudentOrAdminObject(u, revRow[r])
    THEN RevApiReject("review_destroy", r, "403")
    ELSE /\ revRow' = [i \in 1..(Len(revRow) - 1) |->
                          IF i < r THEN revRow[i] ELSE revRow[i + 1]]
         /\ Done("review_destroy", r, "204")
         /\ UNCHANGED <<RevOther, revReq>>

(* Review specifications start from one course owned by t1 and the pending
   enrollment of student s1 in it; the staff account's student profile s2
   holds no enrollment. *)
InitReview ==
    /\ now = 1
    /\ teacherVerified = [t \in Teachers |-> TRUE]
    /\ educationActive = TRUE
    /\ courseRow \in [CourseIds ->
          {[teacher |-> "t1", education |-> NoFK, title |-> "Algebra 101",
            slug |-> "algebra-101", price |-> MIN_COURSE_PRICE,
            is_active |-> a, is_published |-> p,
            published_at |-> NULL, deleted_at |-> NULL] :
              a \in BOOLEAN, p \in BOOLEAN}]
    /\ courseObj = courseRow
    /\ enrRow = <<[NewEnrollment("s1", 1) EXCEPT
                      !.original_price = MIN_COURSE_PRICE]>>
    /\ enrObj = enrRow
    /\ req = [w \in Workers |-> [pc |-> "idle"]]
    /\ revRow = <<>>
    /\ revReq = [w \in Workers |-> [pc |-> "idle"]]
    /\ listed = {}
    /\ userRow = [n \in Accounts |-> NoRow]
    /\ profRow = [n \in Accounts |-> NoFK]
    /\ lessonRow = <<>>
    /\ last = [op |-> "init", id |-> 0, arg |-> 0, res |-> "None"]

Ratings == {0, MAX_RATING}

NextReview ==
    \/ \E w \in Workers, u \in ReviewUsers, c \in CourseIds, rating \in Ratings :
          ReviewPostValidate(w, u, c, rating)
    \/ \E w \in Workers : ReviewPostClean(w)
    \/ \E w \in Workers : ReviewPostInsert(w)
    \/ \E u \in ReviewUsers, r \in RevIds : ReviewApiDestroy(u, r)
    \/ \E e \in EnrIds, st \in STATUS_CHOICES : EnrAdminChange(e, st, 0)

SpecReview == InitReview /\ [][NextReview]_vars

----------------------------------------------------------------------------
(* users/permissions.py: the permission classes, request level
   (has_permission) and object level (has_object_permission).  A class that
   does not override a level inherits BasePermission's, which allows. *)

PermUsers == ReviewUsers \cup {"root"}
Methods == {"GET", "PUT", "DELETE"}
ViewActions == {"list", "create", "retrieve"}
(* the users whose profile is the object of a profile request *)
ProfileOwners == {"u_s1", "u_t1"}

(* IsStudentOrReadOnly.has_permission *)
IsStudentOrReadOnly(u, method) ==
    \/ method \in SAFE_METHODS
    \/ /\ is_authenticated(u)
       /\ is_staff(u) \/ is_superuser(u) \/ user_type(u) = "student"

(* IsStudentEnrolledOrReadOnly.has_object_permission: obj is a course *)
IsStudentEnrolledOrReadOnly(u, c) ==
    IF is_staff(u) \/ is_superuser(u) THEN TRUE
    ELSE \E i \in EnrIds :
            student_user(enrRow[i].student) = u /\ enrRow[i].course = c

(* IsStudentOrTeacher.has_permission *)
IsStudentOrTeacher(u) ==
    /\ is_authenticated(u)
    /\ is_staff(u) \/ is_superuser(u) \/ user_type(u) \in {"student", "teacher"}

(* IsTeacher.has_permission *)
IsTeacher(u) ==
    /\ is_authenticated(u)
    /\ is_staff(u) \/ is_superuser(u) \/ user_type(u) = "teacher"

(* IsLessonCourseTeacherOrReadOnly.has_object_permission: obj is a lesson of
   course c *)
IsLessonCourseTeacherOrReadOnly(u, method, c) ==
    \/ method \in SAFE_METHODS
    \/ /\ is_authenticated(u)
       /\ \/ is_staff(u) \/ is_superuser(u)
          \/ teacher_user(courseRow[c].teacher) = u

(* IsStudentAndOwnerProfile.has_permission *)
IsStudentAndOwnerProfile(u, action) ==
    IF is_staff(u) \/ is_superuser(u) THEN TRUE
    ELSE IF action = "create" THEN ~is_authenticated(u)
    ELSE is_authenticated(u)

(* IsTeacherAndOwnerProfile.has_permission *)
IsTeacherAndOwnerProfile(u, action) ==
    IF is_staff(u) \/ is_superuser(u) THEN TRUE
    ELSE IF action = "create" THEN FALSE
    ELSE is_authenticated(u) /\ user_type(u) = "teacher"

(* IsStudentAndOwnerProfile / IsTeacherAndOwnerProfile
   .has_object_permission: obj is a profile of user owner *)
IsOwnerProfileObject(u, owner) ==
    IF is_staff(u) \/ is_superuser(u) THEN TRUE ELSE owner = u

(* IsAuthenticated.has_permission *)
IsAuthenticated(u) == is_authenticated(u)

(* IsAuthenticated.has_object_permission: obj.user == request.user *)
IsAuthenticatedObject(u, owner) == owner = u

PermissionClasses ==
    {"IsTeacherOrReadOnly", "IsStudentOrReadOnly", "IsTeacherOwnerOrReadOnly",
     "IsStudentEnrolledOrReadOnly", "IsStudentOrTeacher", "IsTeacher",
     "IsStudent", "IsEnrollmentOwner", "IsLessonCourseTeacherOrReadOnly",
     "IsStudentAndOwnerProfile", "IsTeacherAndOwnerProfile", "IsAuthenticated",
     "IsStudentOrAdmin"}

(* rule.has_permission(request, view) *)
has_permission(rule, u, method, action) ==
    CASE rule = "IsTeacherOrReadOnly" -> IsTeacherOrReadOnly(u, method)
      [] rule = "IsStudentOrReadOnly" -> IsStudentOrReadOnly(u, method)
      [] rule = "IsStudentOrTeacher" -> IsStudentOrTeacher(u)
      [] rule = "IsTeacher" -> IsTeacher(u)
      [] rule = "IsStudent" -> IsStudent(u)
      [] rule = "IsStudentAndOwnerProfile" -> IsStudentAndOwnerProfile(u, action)
      [] rule = "IsTeacherAndOwnerProfile" -> IsTeacherAndOwnerProfile(u, action)
      [] rule = "IsAuthenticated" -> IsAuthenticated(u)
      [] rule = "IsStudentOrAdmin" -> IsStudentOrAdmin(u, action)
      [] OTHER -> TRUE

(* rule.has_object_permission(request, view, obj): obj is course c, a lesson
   of course c, enrollment e, review r or a profile of user owner, as the
   rule expects *)
has_object_permission(rule, u, method, c, e, r, owner) ==
    CASE rule = "IsTeacherOwnerOrReadOnly" ->
            IsTeacherOwnerOrReadOnly(u, method, courseRow[c])
      [] rule = "IsStudentEnrolledOrReadOnly" -> IsStudentEnrolledOrReadOnly(u, c)
      [] rule = "IsEnrollmentOwner" -> IsEnrollmentOwner(u, enrRow[e])
      [] rule = "IsLessonCourseTeacherOrReadOnly" ->
            IsLessonCourseTeacherOrReadOnly(u, method, c)
      [] rule = "IsStudentAndOwnerProfile" -> IsOwnerProfileObject(u, owner)
      [] rule = "IsTeacherAndOwnerProfile" -> IsOwnerProfileObject(u, owner)
      [] rule = "IsAuthenticated" -> IsAuthenticatedObject(u, owner)
      [] rule = "IsStudentOrAdmin" -> IsStudentOrAdminObject(u, revRow[r])
      [] OTHER -> TRUE

(* The permission specification: one course of either teacher, one
   enrollment of either student in it and that student's review; each step
   evaluates one rule for one request. *)
InitPerm ==
    /\ now = 1
    /\ teacherVerified = [t \in Teachers |-> TRUE]
    /\ educationActive = TRUE
    /\ \E t \in Teachers :
          courseRow = [c \in CourseIds |->
             [teacher |-> t, education |-> NoFK, title |-> "Algebra 101",
              slug |-> "algebra-101", price |-> MIN_COURSE_PRICE,
              is_active |-> TRUE, is_published |-> TRUE,
              published_at |-> NULL, deleted_at |-> NULL]]
    /\ courseObj = courseRow
    /\ \E st \in ReviewStudents :
          /\ enrRow = <<[NewEnrollment(st, 1) EXCEPT
                            !.original_price = MIN_COURSE_PRICE,
                            !.status = STATUS_ACTIVE]>>
          /\ revRow = <<[student |-> st, course |-> 1, rating |-> MAX_RATING]>>
    /\ enrObj = enrRow
    /\ req = [w \in Workers |-> [pc |-> "idle"]]
    /\ revReq = [w \in Workers |-> [pc |-> "idle"]]
    /\ listed = {}
    /\ userRow = [n \in Accounts |-> NoRow]
    /\ profRow = [n \in Accounts |-> NoFK]
    /\ lessonRow = <<>>
    /\ last = [op |-> "init", id |-> 0, arg |-> 0, res |-> "None"]

PermOther == <<now, courseVars, enrVars, revVars, listed, profVars, lessonRow>>

CheckPermission(rule, u, method, action) ==
    /\ last' = [op |-> "has_permission", id |-> 0, arg |-> 0,
                res |-> IF has_permission(rule, u, method, action)
                        THEN "True" ELSE "False",
                rule |-> rule, user |-> u, method |-> method, action |-> action]
    /\ UNCHANGED PermOther

CheckObjectPermission(rule, u, method, c, e, r, owner) ==
    /\ last' = [op |-> "has_object_permission", id |-> 0, arg |-> 0,
                res |-> IF has_object_permission(rule, u, method, c, e, r, owner)
                        THEN "True" ELSE "False",
                rule |-> rule, user |-> u, method |-> method,
                course |-> c, enrollment |-> e, review |-> r, owner |-> owner]
    /\ UNCHANGED PermOther

NextPerm ==
    \/ \E rule \in PermissionClasses, u \in PermUsers, method \in Methods,
          action \in ViewActions : CheckPermission(rule, u, method, action)
    \/ \E rule \in PermissionClasses, u \in PermUsers, method \in Methods,
          c \in CourseIds, e \in EnrIds, r \in RevIds,
          owner \in ProfileOwners :
              CheckObjectPermission(rule, u, method, c, e, r, owner)

SpecPerm == InitPerm /\ [][NextPerm]_vars

----------------------------------------------------------------------------
(* Profiles: users/serializers.py and users/views.py.  POST creates a user
   and its Teacher or Student profile, PUT/PATCH updates both, DELETE removes
   the profile row. *)

USER_TYPE_CHOICES == {"teacher", "student"}
(* User.user_type: default=USER_TYPE_STUDENT *)
USER_TYPE_DEFAULT == "student"
(* Teacher.user: limit_choices_to={'user_type': 'User.USER_TYPE_TEACHER'}, the
   name of the constant as a string literal *)
TeacherLimitChoice == "User.USER_TYPE_TEACHER"
(* Student.user: limit_choices_to={'user_type': User.USER_TYPE_STUDENT} *)
StudentLimitChoice == "student"

ProfileKinds == {"teacher", "student"}
(* user_info.user_type of a payload: absent, a choice, or not a choice *)
UserTypeInputs == {NoFK, "teacher", "student", "admin"}
ProfileActors == {"admin", "anon", "u_s1", "u_t1"} \cup Accounts

(* the serializers' __init__ without the read_only step *)
UserTypeWritable_Always(u) == TRUE

(* teacherCreateUpdateSerializer / StudentCreateUpdateSerializer.__init__:
   user_info.user_type is made read-only unless the requester is staff or a
   superuser; a read-only field is dropped from the input *)
UserTypeWritable(u) == is_staff(u) \/ is_superuser(u)

(* the ChoiceField of a writable user_type rejects a value that is no choice *)
UserTypeInvalid(u, x) ==
    UserTypeWritable(u) /\ x # NoFK /\ x \notin USER_TYPE_CHOICES

(* user_type of validated_data['user'], or the fallback when it has none *)
ValidatedUserType(u, x, fallback) ==
    IF UserTypeWritable(u) /\ x # NoFK THEN x ELSE fallback

(* Teacher.save / Student.save -> full_clean(): clean_fields checks the user
   against limit_choices_to, clean() checks user_type and, for a student,
   that the two phone numbers differ.  TRUE when ValidationError is raised. *)
ProfileFullCleanFails(kind, user, same_phone) ==
    IF kind = "teacher"
    THEN \/ user.user_type # TeacherLimitChoice
         \/ user.user_type # "teacher"
    ELSE \/ user.user_type # StudentLimitChoice
         \/ user.user_type # "student"
         \/ same_phone

(* a block that raises and is not wrapped in a transaction keeps its writes *)
TransactionAtomic_None(before, partial) == partial

(* with transaction.atomic(): an exception inside the block rolls the writes
   made so far back *)
TransactionAtomic(before, partial) == before

(* TeacherViewSet / StudentViewSet.permission_classes, request level *)
ProfileHasPermission(kind, u, action) ==
    IF kind = "teacher" THEN IsTeacherAndOwnerProfile(u, action)
    ELSE IsStudentAndOwnerProfile(u, action)

(* TeacherViewSet / StudentViewSet.get_queryset: the profiles get_object()
   can find.  The accounts of this table hold no enrollment, so a teacher
   finds none of their students. *)
ProfileVisible(kind, u, n) ==
    /\ profRow[n] = kind
    /\ is_authenticated(u)
    /\ IF is_staff(u) \/ is_superuser(u) THEN TRUE
       ELSE IF kind = "teacher" THEN user_type(u) = "teacher" /\ n = u
       ELSE user_type(u) = "student" /\ n = u

ProfOther == <<now, courseVars, enrVars, revVars, listed, lessonRow>>

ProfileDone(op, kind, u, n, x, same_phone, res) ==
    last' = [op |-> op, id |-> 0, arg |-> 0, res |-> res, kind |-> kind,
             user |-> u, account |-> n, user_type |-> x, same_phone |-> same_phone]

(* a requester that is one of the accounts must exist *)
ActorExists(u) == u \in Accounts => userRow[u] # NoRow

(* the outcome of a request: the two tables and the response *)
ProfileOutcome(users, profs, res) == [users |-> users, profs |-> profs, res |-> res]

(* the body of a serializer's create() or update(): user is the user row
   written first, profs the profile table a successful profile save leaves *)
ProfileWrite(kind, n, user, profs, same_phone, ok) ==
    LET before == [users |-> userRow, profs |-> profRow]
        partial == [users |-> [userRow EXCEPT ![n] = user], profs |-> profRow]
    IN  IF ProfileFullCleanFails(kind, user, same_phone)
        THEN LET s == TransactionAtomic(before, partial)
             IN  ProfileOutcome(s.users, s.profs, "ValidationError")
        ELSE ProfileOutcome(partial.users, profs, ok)

(* POST /teachers, POST /students: permission, serializer, create() *)
ProfileCreate(kind, u, n, x, same_phone) ==
    IF ~ProfileHasPermission(kind, u, "create")
    THEN ProfileOutcome(userRow, profRow, "403")
    ELSE IF userRow[n] # NoRow \/ UserTypeInvalid(u, x)
    THEN ProfileOutcome(userRow, profRow, "400")
    ELSE ProfileWrite(kind, n,
                      [user_type |-> ValidatedUserType(u, x, USER_TYPE_DEFAULT)],
                      [profRow EXCEPT ![n] = kind], same_phone, "201")

(* PUT/PATCH /teachers/{id}, /students/{id}: permission, get_object(),
   serializer, update() *)
ProfileUpdate(kind, u, n, x, same_phone) ==
    IF ~ProfileHasPermission(kind, u, "update")
    THEN ProfileOutcome(userRow, profRow, "403")
    ELSE IF ~ProfileVisible(kind, u, n)
    THEN ProfileOutcome(userRow, profRow, "404")
    ELSE IF ~IsOwnerProfileObject(u, n)
    THEN ProfileOutcome(userRow, profRow, "403")
    ELSE IF UserTypeInvalid(u, x)
    THEN ProfileOutcome(userRow, profRow, "400")
    ELSE ProfileWrite(kind, n,
                      [userRow[n] EXCEPT !.user_type = ValidatedUserType(u, x, @)],
                      profRow, same_phone, "200")

ProfileApply(op, kind, u, n, x, same_phone, s) ==
    /\ userRow' = s.users
    /\ profRow' = s.profs
    /\ ProfileDone(op, kind, u, n, x, same_phone, s.res)
    /\ UNCHANGED ProfOther

ProfileApiCreate(kind, u, n, x, same_phone) ==
    /\ ActorExists(u)
    /\ ProfileApply("profile_create", kind, u, n, x, same_phone,
                    ProfileCreate(kind, u, n, x, same_phone))

ProfileApiUpdate(kind, u, n, x, same_phone) ==
    /\ ActorExists(u)
    /\ ProfileApply("profile_update", kind, u, n, x, same_phone,
                    ProfileUpdate(kind, u, n, x, same_phone))

(* DELETE /teachers/{id}, /students/{id}: ModelViewSet.destroy deletes the
   profile row; the user row stays *)
ProfileDestroy(kind, u, n) ==
    IF ~ProfileHasPermission(kind, u, "destroy")
    THEN ProfileOutcome(userRow, profRow, "403")
    ELSE IF ~ProfileVisible(kind, u, n)
    THEN ProfileOutcome(userRow, profRow, "404")
    ELSE IF ~IsOwnerProfileObject(u, n)
    THEN ProfileOutcome(userRow, profRow, "403")
    ELSE ProfileOutcome(userRow, [profRow EXCEPT ![n] = NoFK], "204")

ProfileApiDestroy(kind, u, n) ==
    /\ ActorExists(u)
    /\ ProfileApply("profile_destroy", kind, u, n, NoFK, FALSE,
                    ProfileDestroy(kind, u, n))

(* the accounts the profile API may add *)
ApiAccounts == Accounts \ {"n0"}

(* The profile specification: n0 is a teacher account whose profile was
   saved with skip_validation=True. *)
InitProfile ==
    /\ now = 1
    /\ teacherVerified = [t \in Teachers |-> FALSE]
    /\ educationActive = TRUE
    /\ courseRow = [c \in CourseIds |-> NoRow]
    /\ courseObj = [c \in CourseIds |-> NoRow]
    /\ enrRow = <<>>
    /\ enrObj = <<>>
    /\ req = <<>>
    /\ revRow = <<>>
    /\ revReq = <<>>
    /\ listed = {}
    /\ userRow = [n \in Accounts |->
                     IF n = "n0" THEN [user_type |-> "teacher"] ELSE NoRow]
    /\ profRow = [n \in Accounts |-> IF n = "n0" THEN "teacher" ELSE NoFK]
    /\ lessonRow = <<>>
    /\ last = [op |-> "init", id |-> 0, arg |-> 0, res |-> "None"]

NextProfile ==
    \/ \E kind \in ProfileKinds, u \in ProfileActors, n \in ApiAccounts,
          x \in UserTypeInputs, same_phone \in BOOLEAN :
              ProfileApiCreate(kind, u, n, x, same_phone)
    \/ \E kind \in ProfileKinds, u \in ProfileActors, n \in Accounts,
          x \in UserTypeInputs, same_phone \in BOOLEAN :
              ProfileApiUpdate(kind, u, n, x, same_phone)
    \/ \E kind \in ProfileKinds, u \in ProfileActors, n \in Accounts :
              ProfileApiDestroy(kind, u, n)

SpecProfile == InitProfile /\ [][NextProfile]_vars

----------------------------------------------------------------------------
(* Permissions: properties *)

StaffOrSuperusers == {u \in PermUsers : is_staff(u) \/ is_superuser(u)}

(* C16: IsTeacherOwnerOrReadOnly allows a write (PUT, DELETE) on a course
   exactly to a staff user, a superuser or the teacher who owns the course,
   so another teacher, a student and the anonymous user are denied; a safe
   method is allowed to every actor, the anonymous user included. *)
C16_CourseWriteOwnerOnly ==
    (last.op = "has_object_permission" /\ last.rule = "IsTeacherOwnerOrReadOnly")
        => LET owner == teacher_user(courseRow[last.course].teacher)
           IN  IF last.method \in SAFE_METHODS
               THEN last.res = "True"
               ELSE (last.res = "True") <=>
                        (last.user \in StaffOrSuperusers \/ last.user = owner)

(* a teacher who does not own the course has been denied a DELETE *)
C16_Witness ==
    /\ last.op = "has_object_permission"
    /\ last.rule = "IsTeacherOwnerOrReadOnly"
    /\ last.method = "DELETE"
    /\ user_type(last.user) = "teacher"
    /\ last.user # teacher_user(courseRow[last.course].teacher)
    /\ last.res = "False"

(* C18: IsEnrollmentOwner allows access to an enrollment exactly to a staff
   user, a superuser, the student who owns the enrollment and the teacher of
   the enrollment's course; every other actor is denied. *)
C18_EnrollmentOwnerOnly ==
    (last.op = "has_object_permission" /\ last.rule = "IsEnrollmentOwner")
        => LET e == enrRow[last.enrollment]
           IN  (last.res = "True") <=>
                   \/ last.user \in StaffOrSuperusers
                   \/ last.user = student_user(e.student)
                   \/ last.user = teacher_user(courseRow[e.course].teacher)

(* a student who is not staff has been denied another student's enrollment *)
C18_Witness ==
    /\ last.op = "has_object_permission"
    /\ last.rule = "IsEnrollmentOwner"
    /\ last.user \notin StaffOrSuperusers
    /\ user_type(last.user) = "student"
    /\ last.user # student_user(enrRow[last.enrollment].student)
    /\ last.res = "False"

(* C19: every rule of users/permissions.py, at the request level and at the
   object level, allows a staff user and a superuser, whatever the method,
   the view action and the target. *)
C19_StaffAlwaysAllowed ==
    (last.op \in {"has_permission", "has_object_permission"}
     /\ last.user \in StaffOrSuperusers)
        => last.res = "True"

----------------------------------------------------------------------------
(* Profiles: properties *)

(* C22 as stated: in every reachable state every account the profile
   endpoints created has its profile row. *)
C22_NoUserWithoutProfile ==
    \A n \in ApiAccounts : userRow[n] # NoRow => profRow[n] # NoFK

(* C22: creating a profile together with its user is atomic: a create request
   whose profile step fails leaves the user table as it was, and a create
   request that adds a user row adds its profile row in the same step. *)
C22_CreateIsAtomic ==
    [][/\ (last'.op = "profile_create" /\ last'.res = "ValidationError")
             => userRow' = userRow /\ profRow' = profRow
       /\ \A n \in ApiAccounts :
             (userRow[n] = NoRow /\ userRow'[n] # NoRow) => profRow'[n] # NoFK
      ]_vars

(* a student create request has failed in the profile step (the two phone
   numbers are equal) and the username is still free *)
C22_Witness ==
    /\ last.op = "profile_create"
    /\ last.kind = "student"
    /\ last.same_phone
    /\ last.res = "ValidationError"
    /\ userRow[last.account] = NoRow

(* C23: a profile create or update request of a requester who is neither
   staff nor superuser changes no existing user's user_type, creates no user
   whose user_type is not the default, and ends exactly as the same request
   without user_type would: the supplied value is ignored. *)
C23_UserTypePrivileged ==
    [][(/\ last'.op \in {"profile_create", "profile_update"}
        /\ ~is_staff(last'.user) /\ ~is_superuser(last'.user))
       => LET l == last'
              stripped ==
                  IF l.op = "profile_create"
                  THEN ProfileCreate(l.kind, l.user, l.account, NoFK, l.same_phone)
                  ELSE ProfileUpdate(l.kind, l.user, l.account, NoFK, l.same_phone)
          IN  /\ \A n \in Accounts :
                    /\ userRow[n] # NoRow => userRow'[n] = userRow[n]
                    /\ (userRow[n] = NoRow /\ userRow'[n] # NoRow)
                          => userRow'[n].user_type = USER_TYPE_DEFAULT
              /\ userRow' = stripped.users
              /\ profRow' = stripped.profs
              /\ l.res = stripped.res
      ]_vars

(* a student has sent user_type = teacher with an update of their own
   profile and the update was accepted; the account is still a student *)
C23_Witness ==
    /\ last.op = "profile_update"
    /\ last.user = last.account
    /\ last.user_type = "teacher"
    /\ last.res = "200"
    /\ userRow[last.account].user_type = "student"

----------------------------------------------------------------------------
(* Transitions of both entities: properties *)

(* the enrollment instance e and its row are as they were *)
EnrollmentUnchanged(e) == enrObj'[e] = enrObj[e] /\ enrRow'[e] = enrRow[e]

(* the course instance c and its row are as they were *)
CourseUnchanged(c) == courseObj'[c] = courseObj[c] /\ courseRow'[c] = courseRow[c]

(* C27: a no-op transition returns False without raising and changes no
   field: activate on an active enrollment, complete on a completed one,
   cancel on a cancelled or refunded one, refund on a refunded one whatever
   the amount, publish on a published or inactive course, unpublish on an
   unpublished course. *)
C27_NoOpTransitions ==
    [][LET op == last'.op
           id == last'.id
       IN  /\ (\/ op = "activate" /\ enrObj[id].status = STATUS_ACTIVE
               \/ op = "complete" /\ enrObj[id].status = STATUS_COMPLETED
               \/ op = "cancel" /\ enrObj[id].status
                                      \in {STATUS_CANCELLED, STATUS_REFUNDED}
               \/ op = "refund" /\ enrObj[id].status = STATUS_REFUNDED)
                 => last'.res = "False" /\ EnrollmentUnchanged(id)
           /\ (\/ op = "publish" /\ (courseObj[id].is_published
                                     \/ ~courseObj[id].is_active)
               \/ op = "unpublish" /\ ~courseObj[id].is_published)
                 => last'.res = "False" /\ CourseUnchanged(id)
      ]_vars

(* refund() was called on a refunded enrollment with more than was paid and
   returned False *)
C27_Witness ==
    /\ last.op = "refund"
    /\ last.res = "False"
    /\ enrObj[last.id].status = STATUS_REFUNDED
    /\ enrRow[last.id].status = STATUS_REFUNDED
    /\ last.arg > enrObj[last.id].price_paid

----------------------------------------------------------------------------
(* Review creation: properties *)

(* C13: a review creation is accepted only while the student holds an
   enrollment for the course in status active or completed: a student's
   request passes the serializer only then, Review.save's validation passes
   only then, and a review row is only ever added by a request that passed
   both; a request of a student without such an enrollment (none, pending,
   cancelled, refunded, expired) is rejected and adds no row. *)
C13_ReviewNeedsEnrollment ==
    /\ [][\A w \in Workers :
            (/\ revReq[w].pc = "idle" /\ revReq'[w].pc = "validated"
             /\ ~(is_staff(revReq'[w].user) \/ is_superuser(revReq'[w].user)))
                => has_enrollment(revReq'[w].obj.student, revReq'[w].obj.course)
       ]_vars
    /\ [][\A w \in Workers :
            (revReq[w].pc = "validated" /\ revReq'[w].pc = "cleaned")
                => has_enrollment(revReq[w].obj.student, revReq[w].obj.course)
       ]_vars
    /\ [][Len(revRow') > Len(revRow) =>
            \E w \in Workers :
                /\ revReq[w].pc = "cleaned"
                /\ revRow' = Append(revRow, revReq[w].obj)
       ]_vars
    /\ [][(last'.op = "review_validate" /\ last'.res = "not_enrolled") =>
            (revRow' = revRow /\ revReq' = revReq)
       ]_vars

(* C13 witness: a review was just created for a student whose enrollment is
   active or completed. *)
C13_Witness ==
    /\ last.op = "review_insert" /\ last.res = "201"
    /\ has_enrollment(revRow[last.id].student, revRow[last.id].course)

ReviewsOf(rows, st, c) ==
    {i \in 1..Len(rows) : rows[i].student = st /\ rows[i].course = c}

(* C14: under every interleaving of review-creation requests each
   (student, course) pair has at most one review row; while the pair has a
   review, no step adds a row and every further request for the pair that
   got past the serializer ends in a validation or integrity error. *)
C14_OneReviewPerPair ==
    /\ [](\A st \in ReviewStudents, c \in CourseIds :
             Cardinality(ReviewsOf(revRow, st, c)) <= 1)
    /\ [][\A w \in Workers :
             (/\ revReq[w].pc # "idle"
              /\ ReviewsOf(revRow, revReq[w].obj.student, revReq[w].obj.course) # {}
              /\ revReq'[w] # revReq[w]) =>
                 /\ revReq'[w].pc = "idle"
                 /\ last'.res \in {"ValidationError", "IntegrityError"}
                 /\ revRow' = revRow
       ]_vars
    /\ [][\A w \in Workers :
             (/\ revReq[w].pc = "idle" /\ revReq'[w].pc = "validated"
              /\ ~(is_staff(revReq'[w].user) \/ is_superuser(revReq'[w].user)))
                 => ReviewsOf(revRow, revReq'[w].obj.student,
                              revReq'[w].obj.course) = {}
       ]_vars

(* C14 witness: two requests of one student raced past the validation and
   the second INSERT was turned down by the unique constraint. *)
C14_Witness ==
    /\ last.op = "review_insert" /\ last.res = "IntegrityError"
    /\ \E st \in ReviewStudents, c \in CourseIds : ReviewsOf(revRow, st, c) # {}

(* C15: a review creation by a staff or superuser actor, with a valid rating
   for a reviewable course not yet reviewed by that actor, passes every
   check and is persisted, whether or not an active or completed enrollment
   exists. *)
C15_StaffBypassesReviewChecks ==
    /\ [][\A w \in Workers, u \in ReviewUsers, c \in CourseIds :
            (/\ is_staff(u) \/ is_superuser(u)
             /\ courseRow[c].is_active \/ courseRow[c].is_published
             /\ ReviewPostValidate(w, u, c, MAX_RATING)) =>
                 /\ last'.res = "ok"
                 /\ revReq'[w].pc = "validated"
       ]_vars
    /\ [][\A w \in Workers :
            (/\ revReq[w].pc # "idle"
             /\ is_staff(revReq[w].user) \/ is_superuser(revReq[w].user)
             /\ ReviewsOf(revRow, revReq[w].obj.student, revReq[w].obj.course) = {}
             /\ revReq'[w] # revReq[w]) =>
                 \/ revReq'[w].pc = "cleaned"
                 \/ last'.res = "201" /\ revRow' = Append(revRow, revReq[w].obj)
       ]_vars

----------------------------------------------------------------------------
(* Course lifecycle: properties *)

CourseMethods == {"publish", "unpublish", "activate", "deactivate", "soft_delete"}

(* C1: in every reachable state every course, as persisted and as held by a
   caller, has is_published = true only when is_active = true. *)
C1_PublishedImpliesActive ==
    \A c \in CourseIds :
        CourseExists(c) =>
            /\ courseRow[c].is_published => courseRow[c].is_active
            /\ courseObj[c].is_published => courseObj[c].is_active

(* C8: published_at becomes non-null only by a successful publish(), a
   successful publish() leaves it non-null, and once it is non-null no
   operation changes it in the row and no lifecycle call changes it in the
   instance. *)
C8_PublishedAtSetOnce ==
    [][\A c \in CourseIds :
          CourseExists(c) =>
              /\ courseRow[c].published_at # NULL
                    => courseRow'[c].published_at = courseRow[c].published_at
              /\ (courseObj[c].published_at # NULL /\ last'.op \in CourseMethods)
                    => courseObj'[c].published_at = courseObj[c].published_at
              /\ (courseRow[c].published_at = NULL
                    /\ courseRow'[c].published_at # NULL)
                    => last' = [op |-> "publish", id |-> c, arg |-> 0, res |-> "True"]
              /\ last' = [op |-> "publish", id |-> c, arg |-> 0, res |-> "True"]
                    => /\ courseRow'[c].published_at # NULL
                       /\ courseObj'[c].published_at = courseRow'[c].published_at
      ]_vars

(* C8 witness: a publish() succeeded on a course whose published_at was
   stamped before the latest clock reading, i.e. a re-publication that kept
   the first stamp. *)
C8_Witness ==
    \E c \in CourseIds :
        /\ CourseExists(c)
        /\ last = [op |-> "publish", id |-> c, arg |-> 0, res |-> "True"]
        /\ courseRow[c].published_at # NULL
        /\ courseRow[c].published_at < now - 1

(* C9: deactivate() called on an instance that is in step with its row
   leaves is_published = false and is_active = false, in the instance and in
   the persisted row. *)
C9_DeactivateUnpublishes ==
    [][\A c \in CourseIds :
          (/\ CourseExists(c)
           /\ courseObj[c] = courseRow[c]
           /\ last'.op = "deactivate" /\ last'.id = c) =>
              /\ ~courseObj'[c].is_published /\ ~courseObj'[c].is_active
              /\ ~courseRow'[c].is_published /\ ~courseRow'[c].is_active
      ]_vars

(* C10: soft_delete() called on an instance that is in step with its row, or
   an authorized DELETE, leaves the course inactive, unpublished and with
   deleted_at set; and no operation removes a course row. *)
C10_SoftDeleteRetainsRow ==
    [][\A c \in CourseIds :
          /\ CourseExists(c) => courseRow'[c] # NoRow
          /\ (/\ CourseExists(c)
              /\ courseObj[c] = courseRow[c]
              /\ last'.id = c /\ last'.op = "soft_delete") =>
                /\ ~courseObj'[c].is_active /\ ~courseObj'[c].is_published
                /\ courseObj'[c].deleted_at # NULL
                /\ ~courseRow'[c].is_active /\ ~courseRow'[c].is_published
                /\ courseRow'[c].deleted_at # NULL
          /\ (last'.id = c /\ last'.op = "api_destroy" /\ last'.res # "403") =>
                /\ ~courseRow'[c].is_active /\ ~courseRow'[c].is_published
                /\ courseRow'[c].deleted_at # NULL
      ]_vars

(* C17: an update (PUT/PATCH) of a course sent by its owner, a teacher who
   is not staff, with valid values (the resulting flags are not published
   while inactive, and the course passes the model's validation) is accepted
   with 200 and the sent fields are persisted. *)
C17_OwnerUpdateAccepted ==
    [][\A c \in CourseIds, attrs \in CourseAttrs :
          (/\ CourseExists(c)
           /\ LET u == teacher_user(courseRow[c].teacher)
                  o == ApplyAttrs(courseRow[c], attrs)
              IN  /\ ~is_staff(u) /\ ~is_superuser(u)
                  /\ ~(~o.is_active /\ o.is_published)
                  /\ CourseSave(o, courseRow[c], CourseFields).res = "ok"
                  /\ CourseApiUpdate(u, c, attrs))
          => /\ last'.res = "200"
             /\ \A f \in DOMAIN attrs : courseRow'[c][f] = attrs[f]
      ]_vars

(* C24: no step writes a course row (an insert or an update through
   Course.save) while the teacher of the course is unverified, whether or not
   the course is linked to an education system. *)
C24_VerifiedTeacherOnSave ==
    [][\A c \in CourseIds :
          (courseRow'[c] # courseRow[c] /\ courseRow'[c] # NoRow)
             => teacherVerified[courseRow'[c].teacher]
      ]_vars

(* the row of a soft-deleted course as soft_delete() leaves it *)
DeletedInactive(r) == r.deleted_at # NULL /\ ~r.is_active /\ ~r.is_published

(* C29 as stated: publish, unpublish, activate, deactivate and soft_delete,
   called on an up-to-date instance of a course whose row has deleted_at set,
   is_active = FALSE and is_published = FALSE, leave the row so. *)
C29_DeletedStaysInactive ==
    [][\A c \in CourseIds :
          (/\ last'.op \in CourseMethods /\ last'.id = c
           /\ CourseExists(c)
           /\ courseObj[c] = courseRow[c]
           /\ DeletedInactive(courseRow[c]))
             => DeletedInactive(courseRow'[c])
      ]_vars

(* C29: no call of publish, unpublish, activate, deactivate or soft_delete
   resets deleted_at of a soft-deleted course to null; publish, unpublish,
   deactivate and soft_delete, called on an up-to-date instance, leave a
   soft-deleted course inactive and unpublished; activate() is the
   exception, it sets is_active again. *)
C29_DeletedAtKept ==
    [][\A c \in CourseIds :
          (/\ last'.op \in CourseMethods /\ last'.id = c
           /\ CourseExists(c)
           /\ courseRow[c].deleted_at # NULL)
             => /\ courseRow'[c].deleted_at # NULL
                /\ (/\ last'.op # "activate"
                    /\ courseObj[c] = courseRow[c]
                    /\ DeletedInactive(courseRow[c]))
                      => DeletedInactive(courseRow'[c])
      ]_vars

(* publish() was called on a soft-deleted course and refused *)
C29_Witness ==
    /\ last.op = "publish"
    /\ last.res = "False"
    /\ CourseExists(last.id)
    /\ DeletedInactive(courseRow[last.id])
    /\ courseObj[last.id] = courseRow[last.id]

(* C30: Course.activate() succeeds from every course state and persists
   is_active = TRUE, whatever the verification status of the teacher and the
   active flag of the education system. *)
C30_ActivateUnconditional ==
    [][last'.op = "activate"
          => /\ last'.res = "None"
             /\ courseRow'[last'.id].is_active
      ]_vars

----------------------------------------------------------------------------
(* Slug: properties *)

(* C31: once a course is persisted, and so has been given its slug by its
   first save, no later save changes the slug of its row: not a title update
   and not publish, unpublish, activate, deactivate or soft_delete *)
C31_SlugNeverRecomputed ==
    [][\A c \in CourseIds :
          (courseRow[c] # NoRow /\ courseRow'[c] # NoRow)
              => courseRow'[c].slug = courseRow[c].slug]_vars

(* C32: in every state, interleavings of concurrent creations included, no
   two persisted courses share a slug and no two share (teacher, title) *)
C32_SlugAndTitleUnique ==
    \A c, d \in DOMAIN courseRow :
        (c # d /\ courseRow[c] # NoRow /\ courseRow[d] # NoRow)
            => /\ courseRow[c].slug # courseRow[d].slug
               /\ ~(/\ courseRow[c].teacher = courseRow[d].teacher
                    /\ courseRow[c].title = courseRow[d].title)

(* two requests both passed the scan and full_clean(), one is persisted and
   the INSERT of the other was refused *)
C32_Witness ==
    /\ last.op = "course_insert" /\ last.res = "IntegrityError"
    /\ \E c \in DOMAIN courseRow : courseRow[c] # NoRow

----------------------------------------------------------------------------
(* Course catalog: properties *)

TeacherUsers == {u \in Users : teacher_profile(u) # NoFK}
UsedSlugs == {courseRow[c].slug : c \in {d \in DOMAIN courseRow : CourseExists(d)}}
Suffixed(base, k) == base \o "-" \o ToString(k)

(* the slug a new course of this title is expected to get: the base slug,
   or the base slug with the smallest numeric suffix no course uses *)
ExpectedSlug(title) ==
    LET base == slugify(title)
    IN  IF base \notin UsedSlugs THEN base
        ELSE Suffixed(base,
                CHOOSE k \in 1..(MaxCatalog + 1) :
                    /\ Suffixed(base, k) \notin UsedSlugs
                    /\ \A j \in 1..(k - 1) : Suffixed(base, j) \in UsedSlugs)

SameTitleExists(title) ==
    \E c \in DOMAIN courseRow : CourseExists(c) /\ courseRow[c].title = title
OwnTitleExists(u, title) ==
    \E c \in DOMAIN courseRow :
        /\ CourseExists(c) /\ courseRow[c].title = title
        /\ courseRow[c].teacher = teacher_profile(u)

(* C11 as stated: a course creation whose title another course already has,
   of the same teacher or of another one, succeeds and gets the base slug
   with the smallest unused numeric suffix. *)
C11_SameTitleAlwaysCreated ==
    [][\A u \in TeacherUsers, title \in Titles, attrs \in CatalogAttrs :
          (/\ CourseApiCreate(u, NoFK, title, MIN_COURSE_PRICE, attrs)
           /\ CourseValidate(u, NoRow, attrs)
           /\ SameTitleExists(title)) =>
              /\ last'.res = "201"
              /\ courseRow'[last'.id].slug = ExpectedSlug(title)
      ]_vars

(* C11 amended: slugs are pairwise distinct; a valid course creation whose
   title no course of the same teacher has succeeds and gets the base slug,
   or the base slug with the smallest unused numeric suffix when taken (-1
   for the first duplicate); one whose title a course of the same teacher
   already has is rejected with a validation error and adds no row. *)
C11_SameTitleSlugs ==
    /\ [](\A c, d \in DOMAIN courseRow :
            (CourseExists(c) /\ CourseExists(d) /\ c # d) =>
                courseRow[c].slug # courseRow[d].slug)
    /\ [][\A u \in TeacherUsers, title \in Titles, attrs \in CatalogAttrs :
            (/\ CourseApiCreate(u, NoFK, title, MIN_COURSE_PRICE, attrs)
             /\ CourseValidate(u, NoRow, attrs)) =>
                IF OwnTitleExists(u, title)
                THEN /\ last'.res = "ValidationError"
                     /\ courseRow' = courseRow
                ELSE /\ last'.res = "201"
                     /\ ~CourseExists(last'.id)
                     /\ courseRow'[last'.id].slug = ExpectedSlug(title)
                     /\ courseRow'[last'.id].title = title
                     /\ \A c \in DOMAIN courseRow :
                            c # last'.id => courseRow'[c] = courseRow[c]
       ]_vars

(* C11 witness: two teachers hold a course of the same title, the first with
   the base slug and the second, just created, with the suffix -1. *)
C11_Witness ==
    /\ last.op = "api_create" /\ last.res = "201"
    /\ \E c \in DOMAIN courseRow :
          /\ CourseExists(c) /\ c # last.id
          /\ courseRow[c].title = courseRow[last.id].title
          /\ courseRow[c].teacher # courseRow[last.id].teacher
          /\ courseRow[c].slug = slugify(courseRow[c].title)
          /\ courseRow[last.id].slug = Suffixed(slugify(courseRow[c].title), 1)

(* C20: the course list answered to an anonymous or non-teacher actor holds
   exactly the courses that are both published and active; the list answered
   to a teacher holds exactly the courses owned by that teacher, whatever
   their flags. *)
C20_CourseListFiltering ==
    last.op = "api_list"
        => LET u == last.res
               existing == {c \in CatalogIds : CourseExists(c)}
           IN  IF u \in TeacherUsers
               THEN listed = {c \in existing :
                                 courseRow[c].teacher = teacher_profile(u)}
               ELSE listed = {c \in existing :
                                 courseRow[c].is_published /\ courseRow[c].is_active}

(* the anonymous user has listed the courses: one is shown and one, which is
   not published or not active, is left out *)
C20_Witness ==
    /\ last.op = "api_list"
    /\ last.res = "anon"
    /\ listed # {}
    /\ \E c \in CatalogIds : CourseExists(c) /\ c \notin listed

----------------------------------------------------------------------------
(* Enrollment creation: properties *)

(* the rows of a (student, course) pair, and those that still count *)
PairRows(rows, st, c) ==
    {i \in 1..Len(rows) : rows[i].student = st /\ rows[i].course = c}
LiveRows(rows, st, c) ==
    {i \in PairRows(rows, st, c) :
        rows[i].status \notin {STATUS_CANCELLED, STATUS_REFUNDED}}

(* C2: under every interleaving of creation requests each (student, course)
   pair has at most one enrollment row that is neither cancelled nor
   refunded; while such a row exists no step adds a row for the pair and no
   request for the pair gets past the serializer's validation. *)
C2_OneLiveEnrollmentPerPair ==
    /\ [](\A st \in Students, c \in CourseIds :
             Cardinality(LiveRows(enrRow, st, c)) <= 1)
    /\ [][\A st \in Students, c \in CourseIds :
             LiveRows(enrRow, st, c) # {} =>
                 /\ PairRows(enrRow', st, c) = PairRows(enrRow, st, c)
                 /\ \A w \in Workers :
                        ~(/\ req[w].pc = "idle"
                          /\ req'[w].pc = "validated"
                          /\ req'[w].obj.student = st
                          /\ req'[w].obj.course = c)
       ]_vars

(* C2 witness: two requests raced past validation and the storage layer
   turned the second INSERT down while the first one's row is live. *)
C2_Witness ==
    /\ last.op = "enroll_insert" /\ last.res = "IntegrityError"
    /\ \E st \in Students, c \in CourseIds : LiveRows(enrRow, st, c) # {}

(* C3: when every enrollment of a (student, course) pair is cancelled or
   refunded, and the course is active and published, a creation request for
   the pair that runs alone succeeds at each step and ends with a new row in
   status pending. *)
C3_ReenrollAfterCancel ==
    [][\A w \in Workers :
          (/\ \A v \in Workers \ {w} : req[v].pc = "idle"
           /\ req[w].pc # "idle"
           /\ PairRows(enrRow, req[w].obj.student, req[w].obj.course) # {}
           /\ LiveRows(enrRow, req[w].obj.student, req[w].obj.course) = {}
           /\ courseRow[req[w].obj.course].is_active
           /\ courseRow[req[w].obj.course].is_published
           /\ req'[w] # req[w]) =>
              \/ req'[w].pc = "cleaned"
              \/ /\ last'.res = "201"
                 /\ Len(enrRow') = Len(enrRow) + 1
                 /\ enrRow'[Len(enrRow')].status = STATUS_PENDING
      ]_vars

(* C12: an enrollment created without original_price and without price_paid
   (POST /enrollments carries neither) is persisted with original_price equal
   to the course's price at that time and price_paid equal to
   original_price - discount_amount. *)
C12_PriceDefaults ==
    [][(last'.op = "enroll_insert" /\ last'.res = "201") =>
          LET e == enrRow'[last'.id]
          IN  /\ e.original_price = courseRow[e.course].price
              /\ e.price_paid = e.original_price - e.discount_amount
      ]_vars

(* C21: DELETE /enrollments/{id} sent by the student who owns the
   enrollment, whose status is neither cancelled nor refunded, runs cancel():
   the status becomes cancelled; and no step removes an enrollment row or
   changes whose enrollment it is. *)
C21_OwnerDeleteCancels ==
    [][/\ \A e \in EnrIds :
            (/\ enrRow[e].status \notin {STATUS_CANCELLED, STATUS_REFUNDED}
             /\ EnrApiDestroy(student_user(enrRow[e].student), e))
            => enrRow'[e].status = STATUS_CANCELLED
       /\ Len(enrRow') >= Len(enrRow)
       /\ \A e \in EnrIds : /\ enrRow'[e].student = enrRow[e].student
                            /\ enrRow'[e].course = enrRow[e].course
      ]_vars

(* C25: can_enroll(student) returns (false, 'Course is not currently
   active') when the course is not active, checked first; (false, reason)
   when it is not published or when an enrollment of the student in the
   course has status active; and (true, '') in every other case, whatever
   other enrollments exist. *)
C25_CanEnroll ==
    last.op = "can_enroll"
        => LET o == courseObj[last.id]
               active == {i \in EnrIds : /\ enrRow[i].student = last.student
                                         /\ enrRow[i].course = last.id
                                         /\ enrRow[i].status = STATUS_ACTIVE}
           IN  /\ ~o.is_active => (~last.allowed /\ last.res = NOT_ACTIVE)
               /\ ~o.is_published => ~last.allowed
               /\ active # {} => ~last.allowed
               /\ ~last.allowed => last.res # ""
               /\ (o.is_active /\ o.is_published /\ active = {})
                     => (last.allowed /\ last.res = "")

(* can_enroll has allowed a student who holds an enrollment in the course
   whose status is not active *)
C25_Witness ==
    /\ last.op = "can_enroll"
    /\ last.allowed
    /\ \E i \in EnrIds : /\ enrRow[i].student = last.student
                         /\ enrRow[i].course = last.id
                         /\ enrRow[i].status = STATUS_COMPLETED

(* C26: every enrollment row the API inserts has status pending, belongs to
   the student profile of a user, and its course is active and published
   when the row is inserted. *)
C26_CreatedPendingByStudent ==
    [][Len(enrRow') > Len(enrRow)
          => LET o == enrRow'[Len(enrRow')]
             IN  /\ o.status = STATUS_PENDING
                 /\ \E u \in Users : /\ student_profile(u) # NoFK
                                     /\ o.student = student_profile(u)
                 /\ courseRow[o.course].is_active
                 /\ courseRow[o.course].is_published
      ]_vars

(* POST /enrollments has inserted a row *)
C26_Witness ==
    /\ last.op = "enroll_insert"
    /\ last.res = "201"
    /\ enrRow[last.id].status = STATUS_PENDING

----------------------------------------------------------------------------
(* Enrollment state machine: properties *)

EnrMethods == {"activate", "complete", "cancel", "refund", "update_progress"}

(* C4: once an enrollment is completed, in the row and in the instance
   loaded from it, no call of activate, complete, cancel, refund or
   update_progress changes the persisted status. *)
C4_CompletedIsTerminal ==
    [][\A e \in EnrIds :
          (/\ enrRow[e].status = STATUS_COMPLETED
           /\ enrObj[e] = enrRow[e]
           /\ last'.op \in EnrMethods /\ last'.id = e) =>
              enrRow'[e].status = STATUS_COMPLETED
      ]_vars

(* C5: once an enrollment is cancelled or refunded, in the row and in the
   instance loaded from it, no call of activate, complete, cancel, refund or
   update_progress changes the status, in the instance or in the row. *)
C5_CancelledRefundedAreTerminal ==
    [][\A e \in EnrIds :
          (/\ enrRow[e].status \in {STATUS_CANCELLED, STATUS_REFUNDED}
           /\ enrObj[e] = enrRow[e]
           /\ last'.op \in EnrMethods /\ last'.id = e) =>
              /\ enrObj'[e].status = enrObj[e].status
              /\ enrRow'[e].status = enrRow[e].status
      ]_vars

RefundColumns == {"status", "refund_amount", "refund_reason", "refunded_at"}
Restrict(f, S) == [x \in S |-> f[x]]

(* C6: refund(amount) on an enrollment that is not refunded: with
   amount > price_paid it fails with a validation error and leaves status,
   refund_amount, refund_reason and refunded_at as they were; with
   amount <= price_paid it ends with status = refunded, refund_amount =
   amount and refunded_at set, and the row refunded. *)
C6_RefundBounded ==
    [][\A e \in EnrIds :
          (/\ last'.op = "refund" /\ last'.id = e
           /\ enrObj[e] = enrRow[e]
           /\ enrObj[e].status # STATUS_REFUNDED) =>
              IF last'.arg > enrObj[e].price_paid
              THEN /\ last'.res = "ValidationError"
                   /\ Restrict(enrObj'[e], RefundColumns)
                        = Restrict(enrObj[e], RefundColumns)
                   /\ enrRow'[e] = enrRow[e]
              ELSE /\ enrObj'[e].status = STATUS_REFUNDED
                   /\ enrObj'[e].refund_amount = last'.arg
                   /\ enrObj'[e].refunded_at # NULL
                   /\ enrRow'[e].status = STATUS_REFUNDED
      ]_vars

(* C7: update_progress(100) returns with status = completed and completed_at
   set, in the instance and in the row; a repeated call changes neither. *)
C7_ProgressCompletes ==
    [][\A e \in EnrIds :
          (last'.op = "update_progress" /\ last'.id = e /\ last'.arg = 100) =>
              /\ last'.res = "None"
              /\ enrObj'[e].status = STATUS_COMPLETED
              /\ enrObj'[e].completed_at # NULL
              /\ enrRow'[e].status = STATUS_COMPLETED
              /\ enrRow'[e].completed_at # NULL
              /\ (last.op = "update_progress" /\ last.id = e /\ last.arg = 100)
                    => /\ enrObj'[e].status = enrObj[e].status
                       /\ enrObj'[e].completed_at = enrObj[e].completed_at
      ]_vars

(* C28: activate() on an enrollment whose status is not active returns True
   and persists status = active with activated_at set (and the transaction
   id when one is given); called again at once it returns False and changes
   nothing. *)
C28_ActivateSucceeds ==
    [][(last'.op = "activate" /\ enrObj[last'.id].status # STATUS_ACTIVE)
          => /\ last'.res = "True"
             /\ enrRow'[last'.id].status = STATUS_ACTIVE
             /\ enrRow'[last'.id].activated_at # NULL
      ]_vars

----------------------------------------------------------------------------
(* Payment references: properties *)

(* C33: no two enrollments share a non-null transaction_id, and
   activate(transaction_id), called on an up-to-date instance that is not
   active yet with an id recorded on another enrollment, ends with a
   ValidationError and leaves the row as it was *)
C33_TransactionIdUnique ==
    [][/\ \A i, j \in DOMAIN enrRow' :
             (i # j /\ enrRow'[i].transaction_id # NoFK)
                 => enrRow'[i].transaction_id # enrRow'[j].transaction_id
       /\ \A e \in EnrIds, tid \in PaymentIds \ {NoFK} :
             (/\ enrObj[e] = enrRow[e]
              /\ enrRow[e].status # STATUS_ACTIVE
              /\ \E i \in EnrIds : i # e /\ enrRow[i].transaction_id = tid
              /\ EnrActivate(e, tid))
                 => /\ last'.res = "ValidationError"
                    /\ enrRow' = enrRow]_vars

----------------------------------------------------------------------------
(* Lessons: properties *)

(* C34: a lesson created without an order, under a title its chapter does not
   hold yet, is saved with order (maximum order of its chapter) + 1, 1 for an
   empty chapter, and every (chapter, order) pair stays unique *)
C34_OrderAutoAssigned ==
    [][\A ch \in Chapters, title \in LessonTitles :
          (/\ ~\E i \in LessonIds : /\ lessonRow[i].chapter = ch
                                    /\ lessonRow[i].title = title
           /\ LessonCreate(ch, title, <<>>))
              => /\ last'.res = "ok"
                 /\ Len(lessonRow') = Len(lessonRow) + 1
                 /\ lessonRow'[Len(lessonRow')].order = MaxOrder(lessonRow, ch) + 1
                 /\ \A i, j \in 1..Len(lessonRow') :
                       (/\ i # j
                        /\ lessonRow'[i].chapter = lessonRow'[j].chapter)
                           => lessonRow'[i].order # lessonRow'[j].order]_vars

----------------------------------------------------------------------------
(* Progress: properties *)

(* C35: from every enrollment state, with the instance as loaded from the
   row, update_progress(100) and the assignment completion_percentage = 100
   followed by save() end with the same status and the same completed_at, in
   the instance and in the row *)
C35_AutoCompletePathsAgree ==
    \A e \in EnrIds :
        enrObj[e] = enrRow[e] =>
            LET a == enr_update_progress(enrObj[e], enrRow[e], 100)
                b == save_completion(enrObj[e], enrRow[e], 100, e)
            IN  /\ a.obj.status = b.obj.status
                /\ a.obj.completed_at = b.obj.completed_at
                /\ a.row.status = b.row.status
                /\ a.row.completed_at = b.row.completed_at

(* the generic save has taken an enrollment with completed_at set to 100%,
   and the instance is as loaded from the row *)
C35_Witness ==
    /\ last.op = "save_completion" /\ last.arg = 100 /\ last.res = "ok"
    /\ enrRow[last.id].completion_percentage = 100
    /\ enrRow[last.id].completed_at # NULL
    /\ enrObj[last.id] = enrRow[last.id]

(* C36: completion_percentage of every row is within [0, 100], and
   update_progress(p) with p < 0 or p > 100 ends with an error and leaves
   completion_percentage, last_accessed_at, status and completed_at as they
   were, in the instance and in the row *)
C36_ProgressWithinRange ==
    [][/\ \A e \in DOMAIN enrRow' :
             /\ 0 <= enrRow'[e].completion_percentage
             /\ enrRow'[e].completion_percentage <= 100
       /\ \A e \in EnrIds :
             (/\ last'.op = "update_progress" /\ last'.id = e
              /\ (last'.arg < 0 \/ last'.arg > 100))
                 => /\ last'.res = "ValueError"
                    /\ enrRow'[e] = enrRow[e]
                    /\ enrObj'[e].completion_percentage
                          = enrObj[e].completion_percentage
                    /\ enrObj'[e].last_accessed_at = enrObj[e].last_accessed_at
                    /\ enrObj'[e].status = enrObj[e].status
                    /\ enrObj'[e].completed_at = enrObj[e].completed_at]_vars

(* update_progress(101) has been refused on an enrollment whose row holds a
   percentage the generic save put there *)
C36_Witness ==
    /\ last.op = "update_progress" /\ last.arg > 100
    /\ last.res = "ValueError"
    /\ enrRow[last.id].completion_percentage = 50

----------------------------------------------------------------------------
(* The five methods alone: properties *)

(* C37: after any sequence of activate, complete, cancel, refund and
   update_progress, an enrollment with status = refunded, as a row or as the
   instance the calls were made on, has a refund_amount that is set and
   within [0, price_paid] and a refunded_at that is set; and none of the five
   methods changes price_paid or original_price *)
C37_RefundedIsConsistent ==
    [][/\ \A e \in DOMAIN enrRow' :
             \A x \in {enrRow'[e], enrObj'[e]} :
                 x.status = STATUS_REFUNDED
                     => /\ x.refund_amount # NoAmount
                        /\ 0 <= x.refund_amount
                        /\ x.refund_amount <= x.price_paid
                        /\ x.refunded_at # NULL
       /\ \A e \in EnrIds :
             (last'.op \in EnrMethods /\ last'.id = e)
                 => /\ enrRow'[e].price_paid = enrRow[e].price_paid
                    /\ enrRow'[e].original_price = enrRow[e].original_price
                    /\ enrObj'[e].price_paid = enrObj[e].price_paid
                    /\ enrObj'[e].original_price = enrObj[e].original_price]_vars

(* C38: after any sequence of activate, complete, cancel, refund and
   update_progress, an enrollment with status = completed, as a row or as the
   instance the calls were made on, has completion_percentage = 100 and a
   completed_at that is set *)
C38_CompletedIsConsistent ==
    \A e \in DOMAIN enrRow :
        \A x \in {enrRow[e], enrObj[e]} :
            x.status = STATUS_COMPLETED
                => /\ x.completion_percentage = 100
                   /\ x.completed_at # NULL

====
